---- MODULE Spec2Model ----
(***************************************************************************)
(* Citation post-processing pipeline of cite-me: the bibliography          *)
(* normalizer (processBibliographyText), the edge-function request handler *)
(* and the rich-text highlighter (prepareRichTextCitation).                *)
(*                                                                         *)
(* Text is a sequence of one-character strings, so that the regular        *)
(* expressions of the source are modelled character by character.          *)
(***************************************************************************)
EXTENDS Integers, Sequences, FiniteSets, TLC

\* ------------------------------------------------------------------ bounds
\* Longest raw bibliography text, counted in pieces (see NormPieces).
MaxPieces == 4

\* ------------------------------------------------------------- characters
LF == "\n"
CR == "\r"

\* JavaScript \s over the characters of the model.
IsWs(c) == c \in {" ", LF, CR}

\* JavaScript \d.
IsDigit(c) == c \in {"0", "1", "2", "3", "4", "5", "6", "7", "8", "9"}

\* JavaScript line terminators: what ^ and $ look at under the m flag.
IsLineTerminator(c) == c \in {LF, CR}

\* ^ under the m flag: position i of s is the start of the input or follows
\* a line terminator.
AtLineStart(s, i) == i = 1 \/ (i > 1 /\ i <= Len(s) + 1 /\ IsLineTerminator(s[i - 1]))

\* First index >= i of s whose character is not in class P (Len(s)+1 if none):
\* the end of a greedy run P* starting at i.
RECURSIVE SkipWs(_, _)
SkipWs(s, i) == IF i <= Len(s) /\ IsWs(s[i]) THEN SkipWs(s, i + 1) ELSE i

RECURSIVE SkipDigits(_, _)
SkipDigits(s, i) == IF i <= Len(s) /\ IsDigit(s[i]) THEN SkipDigits(s, i + 1) ELSE i

\* s[i..j-1]
Slice(s, i, j) == IF j <= i THEN <<>> ELSE SubSeq(s, i, j - 1)

\* String.prototype.trim
RECURSIVE TrimEnd(_)
TrimEnd(s) == IF s # <<>> /\ IsWs(s[Len(s)]) THEN TrimEnd(SubSeq(s, 1, Len(s) - 1)) ELSE s

Trim(s) == TrimEnd(Slice(s, SkipWs(s, 1), Len(s) + 1))

\* s has t at position i.
HasAt(s, i, t) == i + Len(t) - 1 <= Len(s) /\ SubSeq(s, i, i + Len(t) - 1) = t

\* String.prototype.includes
Includes(s, t) == t = <<>> \/ \E i \in 1..Len(s) : s[i] = t[1] /\ HasAt(s, i, t)

\* String.prototype.split with a non-empty separator string: the pieces
\* between the leftmost non-overlapping occurrences of sep.
RECURSIVE SplitFrom(_, _, _, _)
SplitFrom(s, sep, start, i) ==
    IF i > Len(s) THEN <<Slice(s, start, Len(s) + 1)>>
    ELSE IF HasAt(s, i, sep)
         THEN <<Slice(s, start, i)>> \o SplitFrom(s, sep, i + Len(sep), i + Len(sep))
         ELSE SplitFrom(s, sep, start, i + 1)

Split(s, sep) == SplitFrom(s, sep, 1, 1)

\* Array.prototype.join
RECURSIVE Join(_, _)
Join(parts, sep) ==
    IF parts = <<>> THEN <<>>
    ELSE IF Len(parts) = 1 THEN parts[1]
    ELSE parts[1] \o sep \o Join(Tail(parts), sep)

\* Array.prototype.filter(entry => entry.trim())
RECURSIVE FilterNonBlank(_)
FilterNonBlank(parts) ==
    IF parts = <<>> THEN <<>>
    ELSE IF Trim(parts[1]) # <<>> THEN <<parts[1]>> \o FilterNonBlank(Tail(parts))
    ELSE FilterNonBlank(Tail(parts))

ParaBreak == <<LF, LF>>

\* ------------------------------------------------ processBibliographyText
\* text.replace(/\r\n/g, '\n')
RECURSIVE ReplaceCRLF(_, _)
ReplaceCRLF(s, i) ==
    IF i > Len(s) THEN <<>>
    ELSE IF HasAt(s, i, <<CR, LF>>) THEN <<LF>> \o ReplaceCRLF(s, i + 2)
    ELSE <<s[i]>> \o ReplaceCRLF(s, i + 1)

RECURSIVE SkipLF(_, _)
SkipLF(s, i) == IF i <= Len(s) /\ s[i] = LF THEN SkipLF(s, i + 1) ELSE i

\* .replace(/\n{3,}/g, '\n\n')
RECURSIVE CollapseLF(_, _)
CollapseLF(s, i) ==
    IF i > Len(s) THEN <<>>
    ELSE IF s[i] = LF
         THEN LET j == SkipLF(s, i)
              IN  (IF j - i >= 3 THEN ParaBreak ELSE Slice(s, i, j)) \o CollapseLF(s, j)
         ELSE <<s[i]>> \o CollapseLF(s, i + 1)

\* let cleanedText = text.replace(/\r\n/g, '\n').replace(/\n{3,}/g, '\n\n')
CleanedText(text) == CollapseLF(ReplaceCRLF(text, 1), 1)

\* End of a match of /^\s*\d+\.\s+/m at i, or 0 when there is none.
OrdinalMatchEnd(s, i) ==
    IF ~AtLineStart(s, i) THEN 0
    ELSE LET d == SkipWs(s, i)
             e == SkipDigits(s, d)
         IN  IF e > d /\ e <= Len(s) /\ s[e] = "." /\ SkipWs(s, e + 1) > e + 1
             THEN SkipWs(s, e + 1)
             ELSE 0

\* cleanedText.replace(/^\s*\d+\.\s+/gm, '')
RECURSIVE StripOrdinals(_, _)
StripOrdinals(s, i) ==
    IF i > Len(s) THEN <<>>
    ELSE LET e == OrdinalMatchEnd(s, i)
         IN  IF e > 0 THEN StripOrdinals(s, e)
             ELSE <<s[i]>> \o StripOrdinals(s, i + 1)

\* End of a match of /^\s*\[\d+\]\s*/m at i, or 0 when there is none.
BracketMatchEnd(s, i) ==
    IF ~AtLineStart(s, i) THEN 0
    ELSE LET b == SkipWs(s, i)
             d == b + 1
             e == SkipDigits(s, d)
         IN  IF b <= Len(s) /\ s[b] = "[" /\ e > d /\ e <= Len(s) /\ s[e] = "]"
             THEN SkipWs(s, e + 1)
             ELSE 0

\* cleanedText.replace(/^\s*\[\d+\]\s*/gm, match => `${match.trim()} `)
RECURSIVE SpaceBrackets(_, _)
SpaceBrackets(s, i) ==
    IF i > Len(s) THEN <<>>
    ELSE LET e == BracketMatchEnd(s, i)
         IN  IF e > 0 THEN Trim(Slice(s, i, e)) \o <<" ">> \o SpaceBrackets(s, e)
             ELSE <<s[i]>> \o SpaceBrackets(s, i + 1)

\* cleanedText.split('\n\n').filter(entry => entry.trim()).join('\n\n')
DropBlankEntries(s) == Join(FilterNonBlank(Split(s, ParaBreak)), ParaBreak)

Styles == {"APA", "MLA", "Chicago", "OSCOLA", "IEEE", "AMA"}

\* The page's normalizer (the switch over the style).
processBibliographyText(text, style) ==
    IF text = <<>> THEN <<>>
    ELSE LET cleanedText == CleanedText(text)
         IN  CASE style = "APA" -> DropBlankEntries(cleanedText)
               [] style \in {"MLA", "Chicago"} -> DropBlankEntries(cleanedText)
               [] style = "OSCOLA" -> Trim(StripOrdinals(cleanedText, 1))
               [] style = "IEEE" -> DropBlankEntries(SpaceBrackets(cleanedText, 1))
               [] OTHER -> cleanedText

\* The normalizer of the nextjs-app page: the text as received.
processBibliographyTextPassthrough(text, style) ==
    IF text = <<>> THEN <<>> ELSE text

\* The two builds of the page differ in their normalizer.
Builds == {"full", "passthrough"}

Normalizer(build, text, style) ==
    IF build = "full" THEN processBibliographyText(text, style)
    ELSE processBibliographyTextPassthrough(text, style)

\* ------------------------------------------ extract-pdf-metadata handler
\* Largest number of reference PDFs in one request.
MaxPdfs == 2

validCitationStyles == {"OSCOLA", "APA", "MLA", "IEEE", "Chicago", "AMA"}

\* The keys of the style rule table.
citationStyleRules == {"OSCOLA", "APA", "MLA", "IEEE", "Chicago", "AMA"}

\* requestData.citationStyle || 'OSCOLA': an absent or empty value is falsy.
ResolveStyleAlways(req) == req.citationStyle

ResolveStyle(req) ==
    IF req.hasStyle /\ req.citationStyle # "" THEN req.citationStyle ELSE "OSCOLA"

\* validCitationStyles.includes(citationStyle)
IsValidStyleLax(style) == TRUE

IsValidStyle(style) == style \in validCitationStyles

\* masterpiece && masterpiece.url && masterpiece.fileName
MasterpieceHasUrl(req) == req.masterpiece = "file"

FileNames == {"f1", "f2", "f3"}

\* Sequences of distinct file names, as the page sends them.
PdfLists ==
    { fs \in UNION { [1..k -> FileNames] : k \in 0..MaxPdfs } :
        \A i, j \in 1..Len(fs) : i # j => fs[i] # fs[j] }

StyleInputs == {"", "Vancouver", "apa"} \cup validCitationStyles

Requests ==
    { r \in [ method : {"OPTIONS", "GET", "POST"},
              test : BOOLEAN,            \* the body contains "test":true
              parses : BOOLEAN,          \* JSON.parse succeeds
              pdfUrls : PdfLists,
              hasStyle : BOOLEAN,
              citationStyle : StyleInputs,
              masterpiece : {"none", "file", "text"} ] :
        /\ (~r.hasStyle => r.citationStyle = "")
        /\ (r.method # "POST" =>
               ~r.test /\ r.parses /\ r.pdfUrls = <<>> /\ r.masterpiece = "none")
        /\ (~r.parses => ~r.test /\ r.pdfUrls = <<>> /\ r.masterpiece = "none") }

NoResponse == [status |-> 0, error |-> "", results |-> <<>>, errors |-> <<>>,
               hasErrors |-> FALSE]

ErrorResponse(status, msg) ==
    [status |-> status, error |-> msg, results |-> <<>>, errors |-> <<>>,
     hasErrors |-> FALSE]

VARIABLES
    eReq,          \* the request
    ePc,           \* "recv", "master", "loop", "compare", "respond", "done"
    eStyle,        \* citationStyle after defaulting
    eMasterData,   \* masterpieceData is set
    eIdx,          \* next element of pdfUrls
    eRefImages,    \* referenceImages (file names)
    eResults,      \* results
    eErrors,       \* errors
    eScreenshots,  \* calls of getPdfScreenshot so far
    eLookups,      \* reads of citationStyleRules so far
    eResponse      \* the response sent

edgeVars == <<eReq, ePc, eStyle, eMasterData, eIdx, eRefImages, eResults, eErrors,
              eScreenshots, eLookups, eResponse>>

InitEdge ==
    /\ eReq \in Requests
    /\ ePc = "recv"
    /\ eStyle = ""
    /\ eMasterData = FALSE
    /\ eIdx = 1
    /\ eRefImages = <<>>
    /\ eResults = <<>>
    /\ eErrors = <<>>
    /\ eScreenshots = 0
    /\ eLookups = 0
    /\ eResponse = NoResponse

Reject(status, msg) ==
    /\ eResponse' = ErrorResponse(status, msg)
    /\ ePc' = "done"
    /\ UNCHANGED <<eStyle>>

\* From the entry of the handler to the end of the validation.
EdgeReceive ==
    /\ ePc = "recv"
    /\ IF eReq.method = "OPTIONS"
         THEN /\ eResponse' = [NoResponse EXCEPT !.status = 204]
              /\ ePc' = "done"
              /\ UNCHANGED eStyle
       ELSE IF eReq.method # "POST" THEN Reject(405, "Method not allowed")
       ELSE IF eReq.test
         THEN /\ eResponse' = [NoResponse EXCEPT !.status = 200]
              /\ ePc' = "done"
              /\ UNCHANGED eStyle
       ELSE IF ~eReq.parses THEN Reject(400, "Failed to parse request body")
       ELSE IF eReq.pdfUrls = <<>> THEN Reject(400, "PDF URLs array is required")
       ELSE IF ~IsValidStyle(ResolveStyle(eReq))
         THEN /\ eResponse' = ErrorResponse(400, "Invalid citation style")
              /\ ePc' = "done"
              /\ eStyle' = ResolveStyle(eReq)
       ELSE /\ eStyle' = ResolveStyle(eReq)
            /\ ePc' = "master"
            /\ UNCHANGED eResponse
    /\ UNCHANGED <<eReq, eMasterData, eIdx, eRefImages, eResults, eErrors,
                   eScreenshots, eLookups>>

ShotOutcomes == {"image", "null", "throws"}

\* The masterpiece block: a screenshot only of a masterpiece given by url.
EdgeMasterpiece ==
    /\ ePc = "master"
    /\ IF MasterpieceHasUrl(eReq)
         THEN \E shot \in ShotOutcomes :
                /\ eScreenshots' = eScreenshots + 1
                /\ eMasterData' = (shot = "image")
         ELSE UNCHANGED <<eScreenshots, eMasterData>>
    /\ ePc' = "loop"
    /\ UNCHANGED <<eReq, eStyle, eIdx, eRefImages, eResults, eErrors, eLookups,
                   eResponse>>

\* A variant of the loop that ends at the first PDF that fails.
EdgeProcessPdfAbort ==
    /\ ePc = "loop"
    /\ eIdx <= Len(eReq.pdfUrls)
    /\ LET fileName == eReq.pdfUrls[eIdx]
       IN  \E shot \in ShotOutcomes, apiOk \in BOOLEAN :
             /\ eScreenshots' = eScreenshots + 1
             /\ IF shot = "image" /\ (eMasterData \/ (eStyle \in citationStyleRules /\ apiOk))
                  THEN /\ eRefImages' = Append(eRefImages, fileName)
                       /\ eResults' = IF eMasterData THEN eResults
                                      ELSE Append(eResults,
                                             [fileName |-> fileName, kind |-> "citation"])
                       /\ eLookups' = IF eMasterData THEN eLookups ELSE eLookups + 1
                       /\ eIdx' = eIdx + 1
                       /\ UNCHANGED eErrors
                  ELSE /\ eErrors' = Append(eErrors,
                              [fileName |-> fileName, error |-> "exception"])
                       /\ eIdx' = Len(eReq.pdfUrls) + 1
                       /\ UNCHANGED <<eRefImages, eResults, eLookups>>
    /\ UNCHANGED <<eReq, ePc, eStyle, eMasterData, eResponse>>

\* One iteration of the loop over pdfUrls.
EdgeProcessPdf ==
    /\ ePc = "loop"
    /\ eIdx <= Len(eReq.pdfUrls)
    /\ LET fileName == eReq.pdfUrls[eIdx]
       IN  \E shot \in ShotOutcomes, apiOk \in BOOLEAN :
             /\ eScreenshots' = eScreenshots + 1
             /\ CASE shot = "null" ->
                       /\ eErrors' = Append(eErrors,
                              [fileName |-> fileName, error |-> "no image data"])
                       /\ UNCHANGED <<eRefImages, eResults, eLookups>>
                  [] shot = "throws" ->
                       /\ eErrors' = Append(eErrors,
                              [fileName |-> fileName, error |-> "exception"])
                       /\ UNCHANGED <<eRefImages, eResults, eLookups>>
                  [] OTHER ->
                       /\ eRefImages' = Append(eRefImages, fileName)
                       /\ IF eMasterData
                            THEN UNCHANGED <<eResults, eErrors, eLookups>>
                            ELSE /\ eLookups' = eLookups + 1
                                 /\ IF eStyle \in citationStyleRules /\ apiOk
                                      THEN /\ eResults' = Append(eResults,
                                                [fileName |-> fileName, kind |-> "citation"])
                                           /\ UNCHANGED eErrors
                                      ELSE /\ eErrors' = Append(eErrors,
                                                [fileName |-> fileName, error |-> "exception"])
                                           /\ UNCHANGED eResults
    /\ eIdx' = eIdx + 1
    /\ UNCHANGED <<eReq, ePc, eStyle, eMasterData, eResponse>>

\* After the loop: the comparison of the masterpiece with the references.
EdgeCompare ==
    /\ ePc = "loop"
    /\ eIdx > Len(eReq.pdfUrls)
    /\ IF eMasterData /\ eRefImages # <<>>
         THEN \E apiOk \in BOOLEAN :
                /\ eLookups' = eLookups + 1
                /\ IF eStyle \in citationStyleRules /\ apiOk
                     THEN /\ eResults' = Append(eResults,
                               [fileName |-> "masterpiece", kind |-> "masterpiece"])
                          /\ UNCHANGED eErrors
                     ELSE /\ eErrors' = Append(eErrors,
                               [fileName |-> "masterpiece", error |-> "Comparison analysis failed"])
                          /\ UNCHANGED eResults
         ELSE UNCHANGED <<eResults, eErrors, eLookups>>
    /\ ePc' = "respond"
    /\ UNCHANGED <<eReq, eStyle, eMasterData, eIdx, eRefImages, eScreenshots, eResponse>>

\* Return combined results.
EdgeRespond ==
    /\ ePc = "respond"
    /\ eResponse' = [status |-> 200, error |-> "", results |-> eResults,
                     errors |-> eErrors, hasErrors |-> (Len(eErrors) > 0)]
    /\ ePc' = "done"
    /\ UNCHANGED <<eReq, eStyle, eMasterData, eIdx, eRefImages, eResults, eErrors,
                   eScreenshots, eLookups>>

\* ---------------------------------------------- prepareRichTextCitation
\* The characters of a string literal.
Chars(str) == [i \in 1..Len(str) |-> SubSeq(str, i, i)]

UpperLetters == Chars("ABCDEFGHIJKLMNOPQRSTUVWXYZ")

LowerLetters == Chars("abcdefghijklmnopqrstuvwxyz")

\* [A-Z]
UpperSet == {UpperLetters[k] : k \in 1..Len(UpperLetters)}

\* [A-Za-z]
LetterSet == UpperSet \cup {LowerLetters[k] : k \in 1..Len(LowerLetters)}

\* \d
DigitSet == {"0", "1", "2", "3", "4", "5", "6", "7", "8", "9"}

\* [A-Za-z-]
NameSet == LetterSet \cup {"-"}

\* \s
WsSet == {" ", LF, CR}

\* The canonical form of a character under the i flag.
ToLower(c) ==
    IF c \in UpperSet
    THEN LowerLetters[CHOOSE k \in 1..Len(UpperLetters) : UpperLetters[k] = c]
    ELSE c

\* The least element of a non-empty set of positions.
First(S) == CHOOSE x \in S : \A y \in S : x <= y

\* The greatest element of a non-empty set of positions.
Last(S) == CHOOSE x \in S : \A y \in S : y <= x

\* End of the greedy run of characters of class C that starts at i: the first
\* index >= i whose character is not in C, Len(s) + 1 when there is none.
RunEnd(s, i, C) ==
    LET T == {j \in i..Len(s) : s[j] \notin C}
    IN  IF T = {} THEN Len(s) + 1 ELSE First(T)

\* End of the greedy run of characters outside class C that starts at i.
RunEndNot(s, i, C) ==
    LET T == {j \in i..Len(s) : s[j] \in C}
    IN  IF T = {} THEN Len(s) + 1 ELSE First(T)

\* s has t at position i, letter case apart (t in lower case).
HasAtCI(s, i, t) ==
    /\ i + Len(t) - 1 <= Len(s)
    /\ \A k \in 1..Len(t) : ToLower(s[i + k - 1]) = t[k]

\* p1.length < 80
HeaderThreshold == 80

\* if (p1.length < 80 && !p1.includes('.') && p1.trim())
IsHeaderLine(p1) ==
    Len(p1) < HeaderThreshold /\ (\A k \in 1..Len(p1) : p1[k] # ".") /\ Trim(p1) # <<>>

\* formattedCitation.replace(/^(.*?)(?:\n|$)/gm, (match, p1) => ...) from
\* position i on: one block for each line p1.
RECURSIVE StructureFrom(_, _)
StructureFrom(s, i) ==
    LET n == Len(s)
        L == {p \in i..(n + 1) : AtLineStart(s, p)}
    IN  IF L = {} THEN Slice(s, i, n + 1)
        ELSE LET p == First(L)
                 j == RunEndNot(s, p, {LF, CR})
                 p1 == Slice(s, p, j)
                 block ==
                     IF IsHeaderLine(p1)
                     THEN Chars("<h3 style=\"font-weight: bold; margin-top: 1em; margin-bottom: 0.5em;\">")
                              \o p1 \o Chars("</h3>")
                     ELSE Chars("<p style=\"margin-bottom: 1em;\">") \o p1 \o Chars("</p>")
             IN  Slice(s, i, p) \o block \o
                 (IF j <= n /\ s[j] = LF THEN StructureFrom(s, j + 1)
                  ELSE IF j > p THEN StructureFrom(s, j)
                  ELSE IF p <= n THEN <<s[p]>> \o StructureFrom(s, p + 1)
                  ELSE <<>>)

Structure(citation) == StructureFrom(citation, 1)

\* !citation.includes('<') || !citation.includes('>')
IsPlainText(citation) ==
    ~(\E k \in 1..Len(citation) : citation[k] = "<")
        \/ ~(\E k \in 1..Len(citation) : citation[k] = ">")

\* Value of a run of decimal digits.
RECURSIVE DigitsValue(_)
DigitsValue(ds) ==
    IF ds = <<>> THEN 0
    ELSE 10 * DigitsValue(SubSeq(ds, 1, Len(ds) - 1))
         + (CHOOSE v \in 0..9 : <<"0", "1", "2", "3", "4", "5", "6", "7", "8", "9">>[v + 1] = ds[Len(ds)])

\* parseInt of a key that begins with a digit: the value of its leading digits.
ParseInt(k) == DigitsValue(SubSeq(k, 1, RunEnd(k, 1, DigitSet) - 1))

\* An array-index property name: such keys are enumerated first, in
\* ascending numeric order, by Object.keys and Object.values.  (The largest
\* array index has ten digits; the keys of the model are shorter.)
IsArrayIndex(k) ==
    /\ k # <<>>
    /\ \A j \in 1..Len(k) : k[j] \in DigitSet
    /\ (k[1] = "0" => Len(k) = 1)
    /\ Len(k) <= 9

\* bibliographyEntries[k] = v, the entries kept in Object.keys order.
SetEntry(ents, k, v) ==
    LET same == {j \in 1..Len(ents) : ents[j].key = k}
        later == {j \in 1..Len(ents) :
                     ~IsArrayIndex(ents[j].key) \/ ParseInt(ents[j].key) > ParseInt(k)}
        at == IF IsArrayIndex(k) /\ later # {} THEN First(later) ELSE Len(ents) + 1
    IN  IF same # {}
        THEN [j \in 1..Len(ents) |-> IF j \in same THEN [key |-> k, value |-> v] ELSE ents[j]]
        ELSE SubSeq(ents, 1, at - 1) \o <<[key |-> k, value |-> v]>>
                 \o SubSeq(ents, at, Len(ents))

\* bibliographyEntries[k], the empty text when the key is absent.
EntryAt(ents, k) ==
    LET same == {j \in 1..Len(ents) : ents[j].key = k}
    IN  IF same = {} THEN <<>> ELSE ents[First(same)].value

\* /\[\d+\]/ at i: the index of the closing bracket, or 0.
BracketRefEnd(s, i) ==
    IF i > Len(s) \/ s[i] # "[" THEN 0
    ELSE LET d == RunEnd(s, i + 1, DigitSet)
         IN  IF d > i + 1 /\ d <= Len(s) /\ s[d] = "]" THEN d ELSE 0

\* /^\d+\./m at i: the index of the period, or 0.
OrdinalEnd(s, i) ==
    IF i > Len(s) \/ s[i] \notin DigitSet \/ ~AtLineStart(s, i) THEN 0
    ELSE LET d == RunEnd(s, i, DigitSet)
         IN  IF d <= Len(s) /\ s[d] = "." THEN d ELSE 0

\* (?:^\d+\.\s*|\[\d+\]\s*) of footnoteRegex at i: where the content begins,
\* or 0 when the head does not match.
footnoteRegexHead(s, i) ==
    LET o == OrdinalEnd(s, i)
        b == BracketRefEnd(s, i)
    IN  IF o > 0 THEN RunEnd(s, o + 1, WsSet)
        ELSE IF b > 0 THEN RunEnd(s, b + 1, WsSet)
        ELSE 0

\* while ((match = footnoteRegex.exec(citation)) !== null) { ... }
\* The lazy content ([^]*?)(?=^\d+\.|$) stops at the first position that
\* ends a line or begins an ordinal.
RECURSIVE ExtractFootnotes(_, _, _, _)
ExtractFootnotes(s, heads, from, ents) ==
    LET T == {i \in from..Len(s) : heads[i] > 0}
    IN  IF T = {} THEN ents
        ELSE LET i == First(T)
                 e == heads[i]
                 q == First({x \in e..(Len(s) + 1) :
                                x = Len(s) + 1 \/ s[x] \in {LF, CR} \/ OrdinalEnd(s, x) > 0})
                 \* match[0].trim().replace(/[\[\]\.\s]/g, '')
                 refNumber == SelectSeq(Trim(Slice(s, i, q)),
                                        LAMBDA c : c \notin ({"[", "]", "."} \cup WsSet))
                 refContent == Trim(Slice(s, e, q))
             IN  ExtractFootnotes(s, heads, q,
                     IF refNumber # <<>> /\ refContent # <<>>
                     THEN SetEntry(ents, refNumber, refContent) ELSE ents)

\* bibRegex at i: <<end of the author group, end of the match>>, or <<>>.
bibRegexMatch(s, i) ==
    IF i > Len(s) \/ s[i] \notin NameSet \/ ~AtLineStart(s, i) THEN <<>>
    ELSE LET n == Len(s)
             a == RunEnd(s, i, NameSet)
             b == RunEnd(s, a + 1, WsSet)
             w == RunEnd(s, a, WsSet)
             c == RunEnd(s, w + 1, WsSet)
             g == IF a <= n /\ s[a] = "," /\ b > a + 1 /\ b + 1 <= n
                      /\ s[b] \in LetterSet /\ s[b + 1] = "."
                  THEN b + 2
                  ELSE IF w > a /\ w <= n /\ s[w] = "&" /\ c > w + 1 /\ c <= n
                          /\ s[c] \in NameSet
                  THEN RunEnd(s, c, NameSet)
                  ELSE a
             p == RunEndNot(s, g, {"("})
         IN  IF p + 5 <= n /\ (\A k \in 1..4 : s[p + k] \in DigitSet) /\ s[p + 5] = ")"
             THEN <<g, p + 6>> ELSE <<>>

\* `${author.split(',')[0]}-${year}`
AuthorYearKey(author, year) ==
    SubSeq(author, 1, RunEndNot(author, 1, {","}) - 1) \o <<"-">> \o year

\* while ((match = bibRegex.exec(citation)) !== null) { ... }
RECURSIVE ExtractAuthorYear(_, _, _, _)
ExtractAuthorYear(s, ms, from, ents) ==
    LET T == {i \in from..Len(s) : ms[i] # <<>>}
    IN  IF T = {} THEN ents
        ELSE LET i == First(T)
                 m == ms[i]
                 author == Trim(Slice(s, i, m[1]))
                 year == Slice(s, m[2] - 5, m[2] - 1)
             IN  ExtractAuthorYear(s, ms, m[2],
                     IF author # <<>> /\ year # <<>>
                     THEN SetEntry(ents, AuthorYearKey(author, year), Slice(s, i, m[2]))
                     ELSE ents)

\* ^\[(\d+)\]\s+ of ieeeBibRegex at i: <<index of "]", start of the content>>,
\* or <<>>.
ieeeBibRegexHead(s, i) ==
    LET d == BracketRefEnd(s, i)
        e == RunEnd(s, d + 1, WsSet)
    IN  IF d > 0 /\ AtLineStart(s, i) /\ e > d + 1 THEN <<d, e>> ELSE <<>>

\* while ((match = ieeeBibRegex.exec(citation)) !== null) { ... }
\* The lazy content ([^]*?)(?=\[\d+\]|$) stops at the first position that
\* ends a line or begins a bracketed number.
RECURSIVE ExtractNumbered(_, _, _, _)
ExtractNumbered(s, hs, from, ents) ==
    LET T == {i \in from..Len(s) : hs[i] # <<>>}
    IN  IF T = {} THEN ents
        ELSE LET i == First(T)
                 h == hs[i]
                 q == First({x \in h[2]..(Len(s) + 1) :
                                x = Len(s) + 1 \/ s[x] \in {LF, CR} \/ BracketRefEnd(s, x) > 0})
                 refNumber == Slice(s, i + 1, h[1])
                 refContent == Trim(Slice(s, h[2], q))
             IN  ExtractNumbered(s, hs, q,
                     IF refNumber # <<>> /\ refContent # <<>>
                     THEN SetEntry(ents, refNumber, refContent) ELSE ents)

\* const bibliographyEntries: Record<string, string> = {}; filled by style.
bibliographyEntries(citation, style) ==
    LET P == 1..Len(citation)
    IN  CASE style = "OSCOLA" ->
                 ExtractFootnotes(citation, [i \in P |-> footnoteRegexHead(citation, i)], 1, <<>>)
          [] style \in {"APA", "MLA"} ->
                 ExtractAuthorYear(citation, [i \in P |-> bibRegexMatch(citation, i)], 1, <<>>)
          [] style = "IEEE" ->
                 ExtractNumbered(citation, [i \in P |-> ieeeBibRegexHead(citation, i)], 1, <<>>)
          [] OTHER -> <<>>

StrongOpen == Chars("<strong style=\"color: #1e3a8a;\">")

EmOpen == Chars("<em style=\"color: #4361ee;\">")

\* `<span class="citation-ref" title="${entry}">${inner}</span>` when the
\* entry exists, the inner markup alone otherwise.
CitationRef(entry, inner) ==
    IF entry = <<>> THEN inner
    ELSE Chars("<span class=\"citation-ref\" title=\"") \o entry \o Chars("\">")
             \o inner \o Chars("</span>")

\* \d{4} at y followed by a closing parenthesis.
YearThenParen(s, y) ==
    y + 4 <= Len(s) /\ (\A k \in 0..3 : s[y + k] \in DigitSet) /\ s[y + 4] = ")"

\* /\(([A-Za-z-]+(?:(?:\s+&\s+|,\s+)[A-Za-z-]+)?)(?:,\s+|\s+)(\d{4})\)/ at i:
\* <<end of the match, end of the author group, index of the year>>, or <<>>.
apaInTextMatch(s, i) ==
    IF i > Len(s) \/ s[i] # "(" THEN <<>>
    ELSE LET n == Len(s)
             \* (?:,\s+|\s+)(\d{4})\) at b: the index of the year, or 0
             YearTail(b) ==
                 LET comma == b <= n /\ s[b] = ","
                     y == RunEnd(s, IF comma THEN b + 1 ELSE b, WsSet)
                 IN  IF y > (IF comma THEN b + 1 ELSE b) /\ YearThenParen(s, y) THEN y ELSE 0
             a == RunEnd(s, i + 1, NameSet)
             w == RunEnd(s, a, WsSet)
             c == IF a <= n /\ s[a] = "," THEN RunEnd(s, a + 1, WsSet)
                  ELSE IF w > a /\ w <= n /\ s[w] = "&" THEN RunEnd(s, w + 1, WsSet)
                  ELSE 0
             sepOk == IF a <= n /\ s[a] = "," THEN c > a + 1 ELSE c > w + 1
             b == IF c > 0 /\ sepOk /\ c <= n /\ s[c] \in NameSet
                  THEN RunEnd(s, c, NameSet) ELSE 0
             y == IF b > 0 /\ YearTail(b) > 0 THEN <<b, YearTail(b)>>
                  ELSE <<a, YearTail(a)>>
         IN  IF a > i + 1 /\ y[2] > 0 THEN <<y[2] + 5, y[1], y[2]>> ELSE <<>>

\* /^([A-Za-z-]+,\s+[A-Z]\.\s*(?:&\s+[A-Za-z-]+,\s+[A-Z]\.\s*)*)(\(\d{4}\))/
\* at the start of s (without the m flag ^ is the start of the text only):
\* <<end of the match, index of the parenthesis>>, or <<>>.
apaAuthorMatch(s) ==
    LET n == Len(s)
        \* [A-Za-z-]+,\s+[A-Z]\.\s* at c: its end, or 0
        Initialed(c) ==
            LET a == RunEnd(s, c, NameSet)
                b == RunEnd(s, a + 1, WsSet)
            IN  IF a > c /\ a <= n /\ s[a] = "," /\ b > a + 1 /\ b + 1 <= n
                    /\ s[b] \in UpperSet /\ s[b + 1] = "."
                THEN RunEnd(s, b + 2, WsSet) ELSE 0
        \* (?:&\s+ ... )* from q: where the repetition stops
        RECURSIVE More(_)
        More(q) ==
            LET c == RunEnd(s, q + 1, WsSet)
            IN  IF q <= n /\ s[q] = "&" /\ c > q + 1 /\ Initialed(c) > 0
                THEN More(Initialed(c)) ELSE q
        q == IF Initialed(1) > 0 THEN More(Initialed(1)) ELSE 0
    IN  IF q > 0 /\ q <= n /\ s[q] = "(" /\ YearThenParen(s, q + 1)
        THEN <<q + 6, q>> ELSE <<>>

\* /(?:\.\s+|\:\s+)([^\.]+)(?=\.|$)/ at i: <<end of the match, start of the
\* title>>, or <<>>.  When the white space runs up to a period or the end of
\* the text, \s+ gives its last character back to the title.
apaTitleMatch(s, i) ==
    IF i > Len(s) \/ s[i] \notin {".", ":"} THEN <<>>
    ELSE LET b == RunEnd(s, i + 1, WsSet)
             c == RunEndNot(s, b, {"."})
         IN  IF b = i + 1 THEN <<>>
             ELSE IF c > b THEN <<c, b>>
             ELSE IF b > i + 2 THEN <<b, b - 1>>
             ELSE <<>>

\* /\(([A-Za-z-]+)\s+(\d+(?:-\d+)?)\)/ at i: <<end of the match, end of the
\* author, start of the page>>, or <<>>.
mlaInTextMatch(s, i) ==
    IF i > Len(s) \/ s[i] # "(" THEN <<>>
    ELSE LET n == Len(s)
             a == RunEnd(s, i + 1, NameSet)
             b == RunEnd(s, a, WsSet)
             c == RunEnd(s, b, DigitSet)
             d == RunEnd(s, c + 1, DigitSet)
         IN  IF a = i + 1 \/ b = a \/ c = b \/ c > n THEN <<>>
             ELSE IF s[c] = "-" /\ d > c + 1 /\ d <= n /\ s[d] = ")" THEN <<d + 1, a, b>>
             ELSE IF s[c] = ")" THEN <<c + 1, a, b>>
             ELSE <<>>

\* /^([A-Za-z-]+,\s+[A-Za-z\s\.]+)(?=\.)/ at the start of s: <<end of the
\* match>>, or <<>>.  The greedy class run is given back up to its last period.
mlaAuthorMatch(s) ==
    LET n == Len(s)
        a == RunEnd(s, 1, NameSet)
        c == RunEnd(s, a + 1, LetterSet \cup WsSet \cup {"."})
        Q == {q \in (a + 3)..(c - 1) : s[q] = "."}
    IN  IF a > 1 /\ a <= n /\ s[a] = "," /\ a + 1 <= n /\ s[a + 1] \in WsSet /\ Q # {}
        THEN <<Last(Q)>> ELSE <<>>

\* /(\s+\d+-\d+|\s+\d+)\.$/m at i: <<end of the match>>, or <<>>.
mlaPagesMatch(s, i) ==
    IF i > Len(s) \/ s[i] \notin WsSet THEN <<>>
    ELSE LET n == Len(s)
             AtLineEnd(q) == q = n + 1 \/ (q <= n /\ s[q] \in {LF, CR})
             b == RunEnd(s, i, WsSet)
             c == RunEnd(s, b, DigitSet)
             d == RunEnd(s, c + 1, DigitSet)
         IN  IF c = b \/ c > n THEN <<>>
             ELSE IF s[c] = "-" /\ d > c + 1 /\ d <= n /\ s[d] = "." /\ AtLineEnd(d + 1)
             THEN <<d + 1>>
             ELSE IF s[c] = "." /\ AtLineEnd(c + 1) THEN <<c + 1>>
             ELSE <<>>

\* /(Act\s+\d{4}|Constitution|Treaty|Directive|Regulation)/ at i: <<end of
\* the match>>, or <<>>.
statuteMatch(s, i) ==
    IF i > Len(s) \/ s[i] \notin {"A", "C", "T", "D", "R"} THEN <<>>
    ELSE LET b == RunEnd(s, i + 3, WsSet)
             W == {w \in {Chars("Constitution"), Chars("Treaty"), Chars("Directive"),
                          Chars("Regulation")} : HasAt(s, i, w)}
         IN  IF HasAt(s, i, Chars("Act")) /\ b > i + 3 /\ b + 3 <= Len(s)
                 /\ (\A k \in 0..3 : s[b + k] \in DigitSet)
             THEN <<b + 4>>
             ELSE IF W # {} THEN <<i + Len(CHOOSE w \in W : TRUE)>>
             ELSE <<>>

\* The replace calls of the style branches (lines 656-751), in order.
StyleRules(style) ==
    CASE style = "OSCOLA" -> <<"oscolaRef", "caseName", "statute">>
      [] style = "APA" -> <<"apaInText", "apaAuthor", "apaTitle">>
      [] style = "MLA" -> <<"mlaInText", "mlaAuthor", "quoted", "mlaPages">>
      [] style = "IEEE" -> <<"ieeeRef", "quoted">>
      [] OTHER -> <<>>

\* The match of a rule's pattern at i: <<>> when there is none, otherwise the
\* end of the match (exclusive) followed by the bounds of its groups.
Match(rule, s, i) ==
    CASE rule \in {"oscolaRef", "ieeeRef"} ->
             \* /\[(\d+)\]/g
             LET d == BracketRefEnd(s, i) IN IF d > 0 THEN <<d + 1>> ELSE <<>>
      [] rule = "caseName" ->
             \* /^([^,;]+)(,|;|\sv|$)/gm: the greedy group always ends on a
             \* comma, a semicolon or the end of the text
             IF i > Len(s) \/ s[i] \in {",", ";"} \/ ~AtLineStart(s, i) THEN <<>>
             ELSE LET a == RunEndNot(s, i, {",", ";"})
                  IN  <<IF a <= Len(s) THEN a + 1 ELSE a, a>>
      [] rule = "statute" -> statuteMatch(s, i)
      [] rule = "apaInText" -> apaInTextMatch(s, i)
      [] rule = "apaAuthor" -> IF i = 1 THEN apaAuthorMatch(s) ELSE <<>>
      [] rule = "apaTitle" -> apaTitleMatch(s, i)
      [] rule = "mlaInText" -> mlaInTextMatch(s, i)
      [] rule = "mlaAuthor" -> IF i = 1 THEN mlaAuthorMatch(s) ELSE <<>>
      [] rule = "quoted" ->
             \* /"([^"]+)"/g
             IF i > Len(s) \/ s[i] # "\"" THEN <<>>
             ELSE LET c == RunEndNot(s, i + 1, {"\""})
                  IN  IF c > i + 1 /\ c <= Len(s) THEN <<c + 1>> ELSE <<>>
      [] rule = "mlaPages" -> mlaPagesMatch(s, i)

\* What a rule puts in place of its match m at i.
Replacement(rule, ents, s, i, m) ==
    LET strong(t) == StrongOpen \o t \o Chars("</strong>")
        em(t) == EmOpen \o t \o Chars("</em>")
    IN  CASE rule = "oscolaRef" ->
                 CitationRef(EntryAt(ents, Slice(s, i + 1, m[1] - 1)), strong(Slice(s, i, m[1])))
          [] rule = "ieeeRef" ->
                 CitationRef(EntryAt(ents, Slice(s, i + 1, m[1] - 1)),
                             <<"[">> \o strong(Slice(s, i + 1, m[1] - 1)) \o <<"]">>)
          [] rule = "caseName" ->
                 \* '<em style="color: #4361ee;">$1</em>$2'
                 em(Slice(s, i, m[2])) \o Slice(s, m[2], m[1])
          [] rule = "statute" -> em(Slice(s, i, m[1]))
          [] rule = "apaInText" ->
                 LET author == Slice(s, i + 1, m[2])
                     year == Slice(s, m[3], m[3] + 4)
                 IN  CitationRef(EntryAt(ents, AuthorYearKey(author, year)),
                         <<"(">> \o strong(author \o <<",", " ">> \o year) \o <<")">>)
          [] rule = "apaAuthor" ->
                 \* '<strong style="color: #1e3a8a;">$1</strong>$2'
                 strong(Slice(s, i, m[2])) \o Slice(s, m[2], m[1])
          [] rule = "apaTitle" ->
                 \* '. <em style="color: #4361ee;">$1</em>'
                 <<".", " ">> \o em(Slice(s, m[2], m[1]))
          [] rule = "mlaInText" ->
                 \* Object.keys(bibliographyEntries).filter(k => k.startsWith(`${author}-`))
                 LET author == Slice(s, i + 1, m[2])
                     K == {j \in 1..Len(ents) : HasAt(ents[j].key, 1, author \o <<"-">>)}
                 IN  CitationRef(IF K = {} THEN <<>> ELSE ents[First(K)].value,
                         <<"(">> \o strong(author \o <<" ">> \o Slice(s, m[3], m[1] - 1))
                             \o <<")">>)
          [] rule = "mlaAuthor" -> strong(Slice(s, i, m[1]))
          [] rule = "quoted" ->
                 \* '"<em style="color: #4361ee;">$1</em>"'
                 <<"\"">> \o em(Slice(s, i + 1, m[1] - 1)) \o <<"\"">>
          [] rule = "mlaPages" ->
                 \* '<strong style="color: #1e3a8a;">$1</strong>.'
                 strong(Slice(s, i, m[1] - 1)) \o <<".">>

\* String.prototype.replace with a g-flagged pattern, from position `from`:
\* the leftmost match, its replacement, then on from the end of the match.
\* ms[i] is the match of the pattern at i.
RECURSIVE ReplaceFrom(_, _, _, _, _)
ReplaceFrom(rule, ents, s, ms, from) ==
    LET T == {i \in from..Len(s) : ms[i] # <<>>}
    IN  IF T = {} THEN Slice(s, from, Len(s) + 1)
        ELSE LET i == First(T)
             IN  Slice(s, from, i) \o Replacement(rule, ents, s, i, ms[i])
                     \o ReplaceFrom(rule, ents, s, ms, ms[i][1])

\* formattedCitation = formattedCitation.replace(...), one rule after another.
RECURSIVE ApplyRules(_, _, _)
ApplyRules(rules, ents, s) ==
    IF rules = <<>> THEN s
    ELSE ApplyRules(Tail(rules), ents,
             ReplaceFrom(rules[1], ents, s, [i \in 1..Len(s) |-> Match(rules[1], s, i)], 1))

AnnotationOpen ==
    Chars("<span class=\"mce-annotation\" data-mce-annotation-uid=\"citation-highlight\" data-mce-annotation=\"citation\" style=\"background-color: #fff8c5;\">")

\* [\(\[][A-Za-z0-9]+[,\s]*\d{4}[\)\]] at q: the end of the marker, or 0.
\* The greedy [A-Za-z0-9]+ gives four digits back when the year follows it
\* without a separator.
MarkerEnd(s, q) ==
    IF q > Len(s) \/ s[q] \notin {"(", "["} THEN 0
    ELSE LET n == Len(s)
             a == RunEnd(s, q + 1, LetterSet \cup DigitSet)
             y == RunEnd(s, a, WsSet \cup {","})
             YearAt(x) == x + 4 <= n /\ (\A k \in 0..3 : s[x + k] \in DigitSet)
                              /\ s[x + 4] \in {")", "]"}
         IN  IF a = q + 1 THEN 0
             ELSE IF YearAt(y) THEN y + 5
             ELSE IF a - 4 >= q + 2 /\ YearAt(a - 4) THEN a + 1
             ELSE 0

\* Match of a sentence pattern of citationPatterns that starts at a, t being
\* the first sentence end at or after a: the index of the sentence end that
\* closes the match, or 0.  terms is the set of indices of [.!?] in s.
SentenceMatchEnd(pat, s, terms, a, t) ==
    LET HasPhrase(phrases) == \E q \in a..(t - 1) : \E kw \in phrases : HasAtCI(s, q, kw)
    IN  CASE pat = "phrase" ->
                 IF HasPhrase({Chars("as shown by"), Chars("according to"),
                               Chars("suggests that"), Chars("indicates that"),
                               Chars("argues that"), Chars("notes that"),
                               Chars("demonstrates"), Chars("reveals"), Chars("contends")})
                 THEN t ELSE 0
          [] pat = "signal" ->
                 \* cf\. ends on the sentence end t and runs on to the next one
                 LET T2 == {u \in terms : u > t}
                 IN  IF t - 2 >= a /\ HasAtCI(s, t - 2, Chars("cf")) /\ s[t] = "." /\ T2 # {}
                     THEN First(T2)
                     ELSE IF HasPhrase({Chars("see also"), Chars("compare"), Chars("but see")})
                     THEN t ELSE 0
          [] pat = "multiple" ->
                 \* first marker as far right as the sentence allows, then .*
                 \* as far as the line allows, then on to the next sentence end
                 LET End2(q1) == MarkerEnd(s, q1)
                     Second(q1) ==
                         {q2 \in End2(q1)..(RunEndNot(s, End2(q1), {LF, CR}) - 1) :
                             s[q2] \in {"(", "["} /\ End2(q2) > 0
                                 /\ \E u \in terms : u >= End2(q2)}
                     Q1 == {q1 \in a..(t - 1) :
                               s[q1] \in {"(", "["} /\ End2(q1) > 0 /\ Second(q1) # {}}
                 IN  IF Q1 = {} THEN 0
                     ELSE First({u \in terms : u >= End2(Last(Second(Last(Q1))))})

\* formattedCitation.replace(pattern, (match) => !match.includes('mce-annotation')
\*     ? `<span class="mce-annotation" ...>${match}</span>` : match), from a.
RECURSIVE HighlightFrom(_, _, _, _)
HighlightFrom(pat, s, terms, a) ==
    LET T == {t \in terms : t >= a}
    IN  IF T = {} THEN Slice(s, a, Len(s) + 1)
        ELSE LET e == SentenceMatchEnd(pat, s, terms, a, First(T))
                 match == Slice(s, a, e + 1)
             IN  IF e = 0 THEN Slice(s, a, First(T) + 1) \o HighlightFrom(pat, s, terms, First(T) + 1)
                 ELSE (IF Includes(match, Chars("mce-annotation")) THEN match
                       ELSE AnnotationOpen \o match \o Chars("</span>"))
                      \o HighlightFrom(pat, s, terms, e + 1)

\* citationPatterns.forEach(pattern => { ... })
RECURSIVE ApplyPatterns(_, _)
ApplyPatterns(pats, s) ==
    IF pats = <<>> THEN s
    ELSE ApplyPatterns(Tail(pats),
             HighlightFrom(pats[1], s, {j \in 1..Len(s) : s[j] \in {".", "!", "?"}}, 1))

\* Object.keys(bibliographyEntries).sort((a, b) => parseInt(a) - parseInt(b)):
\* a stable sort of the entries by the leading number of their keys.
RECURSIVE SortByNumber(_)
SortByNumber(ents) ==
    IF ents = <<>> THEN <<>>
    ELSE LET rest == SortByNumber(SubSeq(ents, 1, Len(ents) - 1))
             x == ents[Len(ents)]
             G == {j \in 1..Len(rest) : ParseInt(rest[j].key) > ParseInt(x.key)}
             at == IF G = {} THEN Len(rest) + 1 ELSE First(G)
         IN  SubSeq(rest, 1, at - 1) \o <<x>> \o SubSeq(rest, at, Len(rest))

\* One paragraph of the appended section per entry.
RECURSIVE EntryParagraphs(_, _)
EntryParagraphs(ents, style) ==
    IF ents = <<>> THEN <<>>
    ELSE (CASE style = "OSCOLA" ->
                   Chars("<p style=\"margin-bottom: 0.5em;\">") \o StrongOpen \o ents[1].key
                       \o Chars(".</strong> ") \o ents[1].value \o Chars("</p>")
            [] style = "IEEE" ->
                   Chars("<p style=\"margin-bottom: 0.5em;\">") \o StrongOpen \o <<"[">>
                       \o ents[1].key \o Chars("]</strong> ") \o ents[1].value \o Chars("</p>")
            [] OTHER ->
                   Chars("<p style=\"margin-bottom: 0.5em; padding-left: 2em; text-indent: -2em;\">")
                       \o ents[1].value \o Chars("</p>"))
         \o EntryParagraphs(Tail(ents), style)

\* The bibliography/footnotes section appended after the text (lines 779-805).
BibliographySection(citation, ents, style) ==
    IF ents = <<>> \/ (\E h \in {Chars("<h4>References</h4>"), Chars("<h4>Bibliography</h4>"),
                                 Chars("<h4>Footnotes</h4>")} : Includes(citation, h))
    THEN <<>>
    ELSE Chars("<h4 style=\"font-weight: bold; margin-top: 2em; margin-bottom: 0.5em;\">")
         \o (CASE style = "OSCOLA" -> Chars("Footnotes")
               [] style = "MLA" -> Chars("Works Cited")
               [] OTHER -> Chars("References"))
         \o Chars("</h4>")
         \o (IF style \in {"APA", "MLA"} THEN Chars("<div style=\"margin-top: 1em;\">") ELSE <<>>)
         \o EntryParagraphs(IF style \in {"APA", "MLA"} THEN ents ELSE SortByNumber(ents), style)
         \o (IF style \in {"APA", "MLA"} THEN Chars("</div>") ELSE <<>>)

\* A variant that formats every citation as plain text.
prepareRichTextCitationAsPlain(citation, style) ==
    LET ents == bibliographyEntries(citation, style)
    IN  ApplyRules(StyleRules(style), ents, Structure(citation))
            \o BibliographySection(citation, ents, style)

\* const prepareRichTextCitation = (citation: string) => { ... }, citationStyle
\* being the style selected on the page.
prepareRichTextCitation(citation, style) ==
    LET ents == bibliographyEntries(citation, style)
        \* citation.includes("as shown by") || citation.includes("suggests that")
        \*     || citation.includes("according to")
        newCitations ==
            \E kw \in {Chars("as shown by"), Chars("suggests that"), Chars("according to")} :
                Includes(citation, kw)
    IN  IF IsPlainText(citation)
        THEN ApplyPatterns(IF newCitations THEN <<"phrase", "multiple", "signal">> ELSE <<>>,
                           ApplyRules(StyleRules(style), ents, Structure(citation)))
                 \o BibliographySection(citation, ents, style)
        ELSE IF ~Includes(citation, Chars("mce-annotation"))
        THEN ApplyPatterns(<<"phrase", "signal">>, citation)
        ELSE citation

\* ------------------------------------------------- normalizer: state
VARIABLES
    nBuild,     \* which page's normalizer runs
    nText,      \* raw bibliography text
    nStyle,     \* citationStyle
    nOut,       \* processBibliographyText(nText, nStyle)
    nOut2,      \* processBibliographyText(nOut, nStyle)
    nPc         \* "raw", "once", "twice"

normVars == <<nBuild, nText, nStyle, nOut, nOut2, nPc>>

\* Raw texts are built from single characters and the two entry markers.
NormPieces ==
    { <<LF>>, <<CR>>, <<" ">>, <<"a">>, <<"1">>, <<".">>, <<"[">>, <<"]">>,
      <<"1", ".", " ">>, <<"[", "1", "]">> }

RECURSIVE Flatten(_)
Flatten(ps) == IF ps = <<>> THEN <<>> ELSE ps[1] \o Flatten(Tail(ps))

PieceSeqs(n) == UNION { [1..k -> NormPieces] : k \in 0..n }

NormTexts == { Flatten(ps) : ps \in PieceSeqs(MaxPieces) }

NormStart ==
    /\ nBuild \in Builds
    /\ nText \in NormTexts
    /\ nStyle \in Styles
    /\ nOut = <<>>
    /\ nOut2 = <<>>
    /\ nPc = "raw"

\* The exporter normalizes the footnotes.
Normalize ==
    /\ nPc = "raw"
    /\ nOut' = Normalizer(nBuild, nText, nStyle)
    /\ nPc' = "once"
    /\ UNCHANGED <<nBuild, nText, nStyle, nOut2>>

\* The normalizer applied to its own output.
NormalizeAgain ==
    /\ nPc = "once"
    /\ nOut2' = Normalizer(nBuild, nOut, nStyle)
    /\ nPc' = "twice"
    /\ UNCHANGED <<nBuild, nText, nStyle, nOut>>

\* ------------------------------------------------ highlighter: state
\* Longest citation text, counted in tokens (see RichTokens).
MaxRichTokens == 3

VARIABLES
    rText,      \* result.citation as received
    rStyle,     \* citationStyle selected on the page
    rOut,       \* prepareRichTextCitation(rText)
    rOut2,      \* prepareRichTextCitation(rOut)
    rPc         \* "raw", "once", "twice"

richVars == <<rText, rStyle, rOut, rOut2, rPc>>

\* Citation texts are built from line breaks, words, in-text markers,
\* bibliography entries, citing phrases, a markup tag and a lone "<".
RichTokens ==
    { <<LF>>, <<CR>>, <<".">>, Chars("Title"), Chars("(Smith, 2020)"),
      Chars(" argues the point"), Chars("according to "), Chars("argues that "),
      Chars("see also "), Chars("[1] "), Chars("1. "), Chars("Smith (2020) "),
      Chars("(Smith 42)"), Chars("\"T\""), Chars("<b>"), <<"<">>,
      Chars("aaaaaaaaaaaaaaaaaaaaaaaaaaaaaaaaaaaaaaaa") }

RichStart ==
    /\ rText \in { Flatten(ts) : ts \in UNION { [1..k -> RichTokens] : k \in 1..MaxRichTokens } }
    /\ rStyle \in Styles
    /\ rOut = <<>>
    /\ rOut2 = <<>>
    /\ rPc = "raw"

\* The page formats the citation of a result for the editor.
Format ==
    /\ rPc = "raw"
    /\ rOut' = prepareRichTextCitation(rText, rStyle)
    /\ rPc' = "once"
    /\ UNCHANGED <<rText, rStyle, rOut2>>

\* The highlighter applied to its own output.
FormatAgain ==
    /\ rPc = "once"
    /\ rOut2' = prepareRichTextCitation(rOut, rStyle)
    /\ rPc' = "twice"
    /\ UNCHANGED <<rText, rStyle, rOut>>

\* ------------------------------------------ handleRichTextChange (nextjs-app)
\* The editor build keeps the edited citation as markup and formats it through
\* the document tree: every element that carries a data-mce-annotation
\* attribute has its text replaced by the bracketed text of the annotation.
MaxNodes == 2

\* JSON.parse with the property read that follows it, on the attribute values
\* of the model: a SyntaxError for a text that is no JSON value, a TypeError
\* for reading .text of null, undefined for a value without a text property.
ParseAnnotationText(a) ==
    LET open  == Chars("{\"text\":\"")
        close == Chars("\"}")
        n     == Len(a)
    IN  IF a = Chars("null")
          THEN [threw |-> "TypeError", text |-> <<>>]
        ELSE IF a \in {Chars("true"), Chars("false"), Chars("{}")}
                \/ (n > 0 /\ (\A i \in 1..n : IsDigit(a[i])) /\ (n = 1 \/ a[1] # "0"))
          THEN [threw |-> "none", text |-> Chars("undefined")]
        ELSE IF /\ n >= Len(open) + Len(close)
                /\ HasAt(a, 1, open)
                /\ HasAt(a, n - 1, close)
                /\ \A i \in Len(open) + 1..n - 2 : a[i] \notin {"\"", "\\", LF, CR}
          THEN [threw |-> "none", text |-> Slice(a, Len(open) + 1, n - 1)]
        ELSE [threw |-> "SyntaxError", text |-> <<>>]

\* The edited content as its elements in document order: whether an element
\* carries the attribute, the attribute's value, and its text.  The values are
\* the one the editor plugin itself writes ("citation"), the empty value, and
\* JSON texts of each kind.
Contents ==
    LET values == {Chars("citation"), <<>>, Chars("null"), Chars("42"), Chars("{}"),
                   Chars("{\"text\":\"Smith 2020\"}")}
        nodes  == {[annotated |-> FALSE, annotation |-> <<>>, text |-> Chars("plain")]}
                  \cup {[annotated |-> TRUE, annotation |-> a, text |-> Chars("Smith")] :
                          a \in values}
    IN  UNION {[1..k -> nodes] : k \in 0..MaxNodes}

RECURSIVE prepareRichTextCitationDom(_, _, _)
\* citations.forEach from element i on: an element with a non-empty attribute
\* gets the bracketed annotation text; the first exception ends the loop and
\* leaves the function.
prepareRichTextCitationDom(content, style, i) ==
    IF i > Len(content) THEN [threw |-> "none", content |-> content]
    ELSE IF ~content[i].annotated \/ content[i].annotation = <<>>
      THEN prepareRichTextCitationDom(content, style, i + 1)
    ELSE LET p == ParseAnnotationText(content[i].annotation)
             formattedCitation ==
                 IF style \in {"OSCOLA", "IEEE"}
                 THEN <<"[">> \o p.text \o <<"]">>
                 ELSE <<"(">> \o p.text \o <<")">>
         IN  IF p.threw # "none" THEN [threw |-> p.threw, content |-> content]
             ELSE prepareRichTextCitationDom(
                    [content EXCEPT ![i].text = formattedCitation], style, i + 1)

VARIABLES
    xContent,   \* the content the editor hands to the change handler
    xStyle,     \* the selected citation style
    xStored,    \* richTextContent[filename]
    xThrown,    \* the exception that left the handler, "none" when it returned
    xPc         \* "edit" before the handler runs, "done" after

editVars == <<xContent, xStyle, xStored, xThrown, xPc>>

EditStart ==
    /\ xContent \in Contents
    /\ xStyle \in Styles
    /\ xStored = <<>>
    /\ xThrown = "none"
    /\ xPc = "edit"

\* The change handler: content that mentions mce-annotation is formatted
\* before it is stored, other content is stored as it is.
handleRichTextChange ==
    /\ xPc = "edit"
    /\ xPc' = "done"
    /\ IF \E i \in 1..Len(xContent) : xContent[i].annotated
       THEN LET r == prepareRichTextCitationDom(xContent, xStyle, 1)
            IN  /\ xThrown' = r.threw
                /\ xStored' = IF r.threw = "none" THEN r.content ELSE xStored
       ELSE xThrown' = "none" /\ xStored' = xContent
    /\ UNCHANGED <<xContent, xStyle>>

\* ------------------------------------- handleDownloadPDF, handleDownloadDOCX
\* Two builds of the page export a citation: the page of part_002 ("part_002")
\* and the page of src/app ("src").
RECURSIVE TagClose(_, _, _)
\* Index of the ">" that ends the tag being read at s[i], 0 when the input ends
\* inside the tag.  st is the tokenizer's place: in a name, after "=", inside a
\* double-quoted, single-quoted or unquoted attribute value.
TagClose(s, i, st) ==
    IF i > Len(s) THEN 0
    ELSE LET c == s[i]
         IN  CASE st = "name" ->
                    IF c = ">" THEN i
                    ELSE TagClose(s, i + 1, IF c = "=" THEN "eq" ELSE "name")
               [] st = "eq" ->
                    IF c = ">" THEN i
                    ELSE TagClose(s, i + 1,
                           IF IsWs(c) THEN "eq" ELSE IF c = "\"" THEN "dq"
                           ELSE IF c = "'" THEN "sq" ELSE "unq")
               [] st = "dq" -> TagClose(s, i + 1, IF c = "\"" THEN "name" ELSE "dq")
               [] st = "sq" -> TagClose(s, i + 1, IF c = "'" THEN "name" ELSE "sq")
               [] OTHER ->
                    IF c = ">" THEN i
                    ELSE TagClose(s, i + 1, IF IsWs(c) THEN "name" ELSE "unq")

RECURSIVE TextContent(_, _)
\* tmp.innerHTML = html; tmp.textContent, from s[i] on: the character data
\* between the tags, with the character references &amp; &lt; &gt; decoded.
\* A "<" opens a tag before a letter or "/" + letter, and a comment that runs
\* to the next ">" before "!", "?" or "/" + another character; a tag the input
\* ends in is dropped.
TextContent(s, i) ==
    LET n == Len(s)
        p == First({j \in i..n : s[j] \in {"<", "&"}} \cup {n + 1})
        refs == <<[ref |-> Chars("&amp;"), ch |-> "&"], [ref |-> Chars("&lt;"), ch |-> "<"],
                  [ref |-> Chars("&gt;"), ch |-> ">"]>>
        hit == {k \in 1..Len(refs) : HasAt(s, p, refs[k].ref)}
        isTag == \/ p < n /\ s[p + 1] \in LetterSet
                 \/ p + 1 < n /\ s[p + 1] = "/" /\ s[p + 2] \in LetterSet
        isComment == \/ p < n /\ s[p + 1] \in {"!", "?"}
                     \/ p + 1 < n /\ s[p + 1] = "/" /\ s[p + 2] \notin LetterSet
        close == IF isTag THEN TagClose(s, p + 1, "name")
                 ELSE First({j \in p + 1..n : s[j] = ">"} \cup {n + 1}) % (n + 1)
    IN  IF i > n THEN <<>>
        ELSE IF p > n THEN Slice(s, i, n + 1)
        ELSE Slice(s, i, p) \o
             (IF s[p] = "&"
              THEN IF hit # {}
                   THEN <<refs[First(hit)].ch>>
                        \o TextContent(s, p + Len(refs[First(hit)].ref))
                   ELSE <<"&">> \o TextContent(s, p + 1)
              ELSE IF isTag \/ isComment
                   THEN IF close = 0 THEN <<>> ELSE TextContent(s, close + 1)
                   ELSE <<"<">> \o TextContent(s, p + 1))

stripHtml(html) == TextContent(html, 1)

\* typeof footnotes === 'string' ? footnotes : footnotes.join('\n\n'); absent
\* footnotes give the empty text.  Footnotes are a record of their kind
\* ("none", "string", "array") and their texts.
RawFootnotesText(footnotes) ==
    IF footnotes.kind = "none" THEN <<>> ELSE Join(footnotes.items, ParaBreak)

\* A variant that keeps the footnotes of every style in one block.
EntryBlocksOneBlock(style, footnotesText) ==
    <<[kind |-> "entry", text |-> footnotesText]>>

\* The blocks of the footnotes: one block for OSCOLA and IEEE, otherwise one
\* block for every paragraph that is not blank, trimmed.
EntryBlocks(style, footnotesText) ==
    IF style \in {"OSCOLA", "IEEE"}
    THEN <<[kind |-> "entry", text |-> footnotesText]>>
    ELSE LET entries == FilterNonBlank(Split(footnotesText, ParaBreak))
         IN  [k \in 1..Len(entries) |-> [kind |-> "entry", text |-> Trim(entries[k])]]

\* The name of the saved file.  part_002 replaces every run of white space by
\* one underscore in both formats; src/app does so for DOCX, and for PDF
\* replaces every character outside [A-Za-z0-9_], white space, "." and "-".
ExportFileName(build, format, filename) ==
    LET n == Len(filename)
        kept == SelectSeq([i \in 1..n |-> i],
                          LAMBDA i : ~IsWs(filename[i]) \/ i = 1 \/ ~IsWs(filename[i - 1]))
        runs == [k \in 1..Len(kept) |->
                   IF IsWs(filename[kept[k]]) THEN "_" ELSE filename[kept[k]]]
        safe == [i \in 1..n |->
                   IF filename[i] \in LetterSet \cup DigitSet \cup {"_", ".", "-"}
                      \/ IsWs(filename[i])
                   THEN filename[i] ELSE "_"]
    IN  Chars("citation_")
        \o (IF build = "src" /\ format = "pdf" THEN safe ELSE runs)
        \o <<".">> \o Chars(format)

\* What handleDownloadPDF hands to doc.text and doc.save: the blocks in the
\* order they are drawn.  Texts of the model fit on one line.
PdfDocument(build, filename, content, footnotes, style) ==
    LET raw == RawFootnotesText(footnotes)
        \* if (footnotes): a non-empty string or any array
        given == \/ footnotes.kind = "array"
                 \/ footnotes.kind = "string" /\ footnotes.items[1] # <<>>
    IN  [name   |-> ExportFileName(build, "pdf", filename),
         blocks |->
           IF build = "part_002"
           THEN <<[kind |-> "title", text |-> Chars("Citation for: ") \o filename],
                  [kind |-> "citation", text |-> stripHtml(content)]>>
                \o (IF given
                    THEN <<[kind |-> "divider", text |-> <<>>],
                           [kind |-> "heading", text |-> Chars("References/Footnotes:")]>>
                         \o EntryBlocks(style, processBibliographyText(raw, style))
                    ELSE <<>>)
           ELSE <<[kind |-> "title", text |-> Chars("Citation (") \o Chars(style) \o <<")">>]>>
                \o (IF content = <<>> THEN <<>>
                    ELSE <<[kind |-> "citation", text |-> content]>>)
                \o (IF given
                    THEN <<[kind |-> "heading", text |-> Chars("References:")]>>
                         \o (IF raw = <<>> THEN <<>>
                             ELSE <<[kind |-> "entry", text |-> raw]>>)
                    ELSE <<>>)]

\* The children of the section handleDownloadDOCX builds, and the name it
\* hands to saveAs.
DocxDocument(build, filename, content, footnotes, style) ==
    LET footnotesText == processBibliographyText(RawFootnotesText(footnotes), style)
    IN  [name   |-> ExportFileName(build, "docx", filename),
         blocks |->
           <<[kind |-> "title", text |-> Chars("Citation for: ") \o filename],
             [kind |-> "space", text |-> <<>>],
             [kind |-> "citation",
              text |-> IF build = "part_002" THEN stripHtml(content) ELSE content]>>
           \o (IF footnotesText # <<>>
               THEN <<[kind |-> "heading", text |-> Chars("References/Footnotes:")],
                      [kind |-> "divider", text |-> <<>>]>>
                    \o EntryBlocks(style, footnotesText)
               ELSE <<>>)]

\* Largest number of pieces of an exported citation, and of footnotes.
MaxParts == 2
MaxFootnotes == 2

VARIABLES
    dBuild,      \* the build of the page
    dFile,       \* the name of the reference file
    dContent,    \* editableCitations[filename] || citation
    dFootnotes,  \* the footnotes of the result
    dStyle,      \* citationStyle
    dPdf,        \* what handleDownloadPDF saved
    dDocx        \* what handleDownloadDOCX saved

exportVars == <<dBuild, dFile, dContent, dFootnotes, dStyle, dPdf, dDocx>>

NoDocument == [name |-> <<>>, blocks |-> <<>>]

\* File names with white space, punctuation and an extension; citations of
\* text, markup and a character reference; footnotes of each kind.
ExportStart ==
    LET parts == {Chars("<p>"), Chars("</p>"), Chars("Smith"), Chars(" &amp; "),
                  Chars("<em class=\"a>b\">"), Chars(" < ")}
        notes == {Chars("[1] First ref."), Chars("[2] Second ref."), Chars("1. Doe"),
                  <<"A", CR, LF, CR, LF, "B">>, <<" ">>}
        lists == UNION {[1..k -> notes] : k \in 0..MaxFootnotes}
    IN  /\ dBuild \in {"part_002", "src"}
        /\ dFile \in {Chars("paper.pdf"), Chars("my  paper.pdf"), Chars("r(1) v2"),
                      Chars("a_b-c")}
        /\ dContent \in {Flatten(ps) : ps \in UNION {[1..k -> parts] : k \in 0..MaxParts}}
        /\ dFootnotes \in {[kind |-> "none", items |-> <<>>]}
                          \cup {[kind |-> "string", items |-> <<t>>] : t \in notes \cup {<<>>}}
                          \cup {[kind |-> "array", items |-> l] : l \in lists}
        /\ dStyle \in Styles
        /\ dPdf = NoDocument
        /\ dDocx = NoDocument

\* The PDF button of the result.
DownloadPDF ==
    /\ dPdf = NoDocument
    /\ dPdf' = PdfDocument(dBuild, dFile, dContent, dFootnotes, dStyle)
    /\ UNCHANGED <<dBuild, dFile, dContent, dFootnotes, dStyle, dDocx>>

\* The Word button of the result.
DownloadDOCX ==
    /\ dDocx = NoDocument
    /\ dDocx' = DocxDocument(dBuild, dFile, dContent, dFootnotes, dStyle)
    /\ UNCHANGED <<dBuild, dFile, dContent, dFootnotes, dStyle, dPdf>>

\* ------------------------------------------------------------ the page (Home)
\* The state of the page and the handlers that change it, for the builds
\* part_002 and src.  A citation is known by the generation request that
\* produced it and by who wrote it last.
MaxRuns == 2
MaxDownloads == 2

PageFiles == {"a.pdf", "b c.pdf"}

NoCitation == [run |-> 0, by |-> "none"]

VARIABLES
    pBuild,      \* the build of the page: "part_002" or "src"
    pSelected,   \* selectedFiles, by name
    pMaster,     \* inputMode, masterFile ("" when empty), masterText, and the
                 \* answer to the last confirmation dialog
    pCitations,  \* citations: file name -> citation, NoCitation when absent
    pEditable,   \* editableCitations (part_002), richTextContent (src)
    pResults,    \* results of the last response that had any
    pError,      \* error
    pLoading,    \* isLoading
    pRun,        \* the generation requests started so far, and the files and
                 \* the masterpiece captured by the one in flight
    pRemote,     \* what the last request did: files uploaded, function invoked,
                 \* direct fetch, files removed from storage
    pDownloads   \* the files handed to doc.save and saveAs, in order

pageVars ==
    <<pBuild, pSelected, pMaster, pCitations, pEditable, pResults, pError, pLoading,
      pRun, pRemote, pDownloads>>

NoRemote ==
    [uploaded |-> {}, master |-> FALSE, invoke |-> "none", invokeError |-> "",
     fetch |-> "none", removed |-> {}]

PageStart ==
    /\ pBuild \in {"part_002", "src"}
    /\ pSelected = {}
    /\ pMaster = [mode |-> "file", file |-> "", text |-> "", confirm |-> "none"]
    /\ pCitations = [f \in PageFiles |-> NoCitation]
    /\ pEditable = [f \in PageFiles |-> NoCitation]
    /\ pResults = {}
    /\ pError = ""
    /\ pLoading = FALSE
    /\ pRun = [count |-> 0, files |-> {}, master |-> "none"]
    /\ pRemote = NoRemote
    /\ pDownloads = <<>>

\* The citations panel: the error text when there is one, otherwise one entry
\* with a PDF and a Word button for every citation.
Displayed ==
    IF pError # "" THEN {} ELSE {f \in PageFiles : pCitations[f] # NoCitation}

\* masterText.trim() === ''
Blank(text) == text \in {"", " "}

handleFileSelect ==
    \E f \in PageFiles \ pSelected :
       /\ pSelected' = pSelected \cup {f}
       /\ pCitations' = [g \in PageFiles |-> NoCitation]
       /\ pError' = ""
       /\ UNCHANGED <<pBuild, pMaster, pEditable, pResults, pLoading, pRun, pRemote,
                      pDownloads>>

handleFileRemove ==
    \E f \in pSelected :
       /\ pSelected' = pSelected \ {f}
       /\ pCitations' = [pCitations EXCEPT ![f] = NoCitation]
       /\ UNCHANGED <<pBuild, pMaster, pEditable, pResults, pError, pLoading, pRun,
                      pRemote, pDownloads>>

\* A masterpiece file is chosen.  The handler is modelled for both input modes;
\* with pasted text it asks before it discards the text.
handleMasterFileSelect ==
    \E file \in {"a.pdf", "m.pdf"}, accepts \in BOOLEAN :
       LET asks == pMaster.mode = "text" /\ ~Blank(pMaster.text)
       IN  /\ ~asks => accepts
           /\ IF asks /\ ~accepts
              THEN /\ pMaster' = [pMaster EXCEPT !.confirm = "declined"]
                   /\ UNCHANGED <<pCitations, pError>>
              ELSE /\ pMaster' = [mode |-> "file", file |-> file, text |-> "",
                                  confirm |-> IF asks THEN "accepted" ELSE "none"]
                   /\ pCitations' = [g \in PageFiles |-> NoCitation]
                   /\ pError' = ""
           /\ UNCHANGED <<pBuild, pSelected, pEditable, pResults, pLoading, pRun,
                          pRemote, pDownloads>>

\* The masterpiece text is changed; with a masterpiece file the handler asks
\* before it discards the file.
handleMasterTextChange ==
    \E newText \in {"", " ", "t"} \ {pMaster.text}, accepts \in BOOLEAN :
       LET asks == pMaster.mode = "file" /\ pMaster.file # ""
       IN  /\ ~asks => accepts
           /\ IF asks /\ ~accepts
              THEN /\ pMaster' = [pMaster EXCEPT !.confirm = "declined"]
                   /\ UNCHANGED <<pCitations, pError>>
              ELSE /\ pMaster' = [mode |-> "text", file |-> "", text |-> newText,
                                  confirm |-> IF asks THEN "accepted" ELSE "none"]
                   /\ pCitations' = [g \in PageFiles |-> NoCitation]
                   /\ pError' = ""
           /\ UNCHANGED <<pBuild, pSelected, pEditable, pResults, pLoading, pRun,
                          pRemote, pDownloads>>

\* A variant that switches the mode and keeps the file and the text.
toggleInputModeKeep ==
    \E accepts \in BOOLEAN :
       LET asks == \/ pMaster.mode = "file" /\ pMaster.file # ""
                   \/ pMaster.mode = "text" /\ ~Blank(pMaster.text)
           flipped == IF pMaster.mode = "file" THEN "text" ELSE "file"
       IN  /\ ~asks => accepts
           /\ pMaster' =
                 IF asks /\ ~accepts
                 THEN [pMaster EXCEPT !.confirm = "declined"]
                 ELSE [pMaster EXCEPT !.mode = flipped,
                                      !.confirm = IF asks THEN "accepted" ELSE "none"]
           /\ UNCHANGED <<pBuild, pSelected, pCitations, pEditable, pResults, pError,
                          pLoading, pRun, pRemote, pDownloads>>

\* The mode button: it asks before it discards a masterpiece file or a pasted
\* text, discards it, and switches the mode.
toggleInputMode ==
    \E accepts \in BOOLEAN :
       LET asksFile == pMaster.mode = "file" /\ pMaster.file # ""
           asksText == ~asksFile /\ pMaster.mode = "text" /\ ~Blank(pMaster.text)
           asks == asksFile \/ asksText
           flipped == IF pMaster.mode = "file" THEN "text" ELSE "file"
       IN  /\ ~asks => accepts
           /\ pMaster' =
                 IF asks /\ ~accepts
                 THEN [pMaster EXCEPT !.confirm = "declined"]
                 ELSE [mode |-> flipped,
                       file |-> IF asksFile THEN "" ELSE pMaster.file,
                       text |-> IF asksText THEN "" ELSE pMaster.text,
                       confirm |-> IF asks THEN "accepted" ELSE "none"]
           /\ UNCHANGED <<pBuild, pSelected, pCitations, pEditable, pResults, pError,
                          pLoading, pRun, pRemote, pDownloads>>

handleMasterFileRemove ==
    /\ pMaster.file # ""
    /\ pMaster' = [pMaster EXCEPT !.file = "", !.confirm = "none"]
    /\ pCitations' = [g \in PageFiles |->
                        IF g = pMaster.file THEN NoCitation ELSE pCitations[g]]
    /\ UNCHANGED <<pBuild, pSelected, pEditable, pResults, pError, pLoading, pRun,
                   pRemote, pDownloads>>

\* The masterpiece a request takes along: the file, the pasted text, or none.
MasterpieceGiven ==
    IF pMaster.mode = "file" /\ pMaster.file # "" THEN "file"
    ELSE IF pMaster.mode = "text" /\ ~Blank(pMaster.text) THEN "text"
    ELSE "none"

\* A variant that starts loading before it looks at the selection.
handleGenerateCitationsEager ==
    /\ ~pLoading
    /\ pLoading' = TRUE
    /\ IF pSelected = {}
       THEN /\ pError' = "Please select at least one reference PDF file"
            /\ UNCHANGED <<pRun, pRemote>>
       ELSE /\ pRun.count < MaxRuns
            /\ pError' = ""
            /\ pRun' = [count |-> pRun.count + 1, files |-> pSelected,
                        master |-> MasterpieceGiven]
            /\ pRemote' = NoRemote
    /\ UNCHANGED <<pBuild, pSelected, pMaster, pCitations, pEditable, pResults,
                   pDownloads>>

\* The Cite Me! button, disabled while a request is in flight: without a
\* selected file the click is rejected, otherwise a request starts.
handleGenerateCitations ==
    /\ ~pLoading
    /\ IF pSelected = {}
       THEN /\ pError' = "Please select at least one reference PDF file"
            /\ UNCHANGED <<pLoading, pRun, pRemote>>
       ELSE /\ pRun.count < MaxRuns
            /\ pLoading' = TRUE
            /\ pError' = ""
            /\ pRun' = [count |-> pRun.count + 1, files |-> pSelected,
                        master |-> MasterpieceGiven]
            /\ pRemote' = NoRemote
    /\ UNCHANGED <<pBuild, pSelected, pMaster, pCitations, pEditable, pResults,
                   pDownloads>>

\* The errors a failed invocation and a failed direct fetch are thrown with.
InvokeErrors == {"Edge Function error: Unknown error", "Failed to send a request to the Edge Function"}

FetchErrors == {"HTTP error 500"}

\* The rest of the request in flight, given the error that is thrown on when
\* the invocation and the direct fetch have both failed.  Each upload succeeds or fails; with an uploaded reference file
\* the function is invoked, and after a failed invocation fetched directly; an
\* answer has citations for some files and errors for others and possibly no
\* results array.  The files in uploadedFiles are removed from storage unless
\* both calls have failed.
Settle(rethrown) ==
    /\ pLoading
    /\ \E uploaded \in SUBSET pRun.files, masterUp \in BOOLEAN,
          invoke \in {"none", "ok", "failed"}, fetch \in {"none", "ok", "failed"},
          invokeError \in InvokeErrors \cup {""}, fetchError \in FetchErrors \cup {""},
          cited \in SUBSET pRun.files, reported \in SUBSET pRun.files,
          hasResults \in BOOLEAN :
          LET answered == invoke = "ok" \/ fetch = "ok"
              failed == invoke = "failed" /\ fetch = "failed"
              errors == (pRun.files \ uploaded) \cup reported
              masterError == pRun.master = "file" /\ ~masterUp
              newCitations ==
                  [f \in PageFiles |->
                     IF f \in cited /\ hasResults
                     THEN [run |-> pRun.count, by |-> "remote"] ELSE NoCitation]
          IN  /\ masterUp => pRun.master = "file"
              /\ (invoke = "none") <=> (uploaded = {})
              /\ (fetch = "none") <=> (invoke # "failed")
              /\ (invokeError = "") <=> (invoke # "failed")
              /\ (fetchError = "") <=> (fetch # "failed")
              /\ cited \subseteq uploaded
              /\ reported \subseteq uploaded \ cited
              /\ ~answered => (reported = {} /\ ~hasResults)
              /\ ~hasResults => cited = {}
              /\ pRemote' = [uploaded |-> uploaded, master |-> masterUp,
                             invoke |-> invoke, invokeError |-> invokeError,
                             fetch |-> fetch,
                             removed |-> IF failed THEN {} ELSE uploaded]
              /\ IF failed
                 THEN /\ pError' = "Failed to process files: " \o
                                      (IF rethrown = "funcError" THEN invokeError
                                       ELSE fetchError)
                      /\ UNCHANGED <<pCitations, pEditable, pResults>>
                 ELSE /\ pResults' =
                            IF hasResults
                            THEN {[fileName |-> f, run |-> pRun.count] : f \in cited}
                            ELSE pResults
                      /\ pError' = IF errors # {} \/ masterError
                                   THEN "Error processing" ELSE pError
                      /\ pCitations' = newCitations
                      /\ pEditable' = IF pBuild = "src" THEN pEditable ELSE newCitations
    /\ pLoading' = FALSE
    /\ pRun' = [pRun EXCEPT !.files = {}, !.master = "none"]
    /\ UNCHANGED <<pBuild, pSelected, pMaster, pDownloads>>

\* A variant that rethrows the error of the direct fetch.
GenerateSettleLast == Settle("directFetchError")

\* After a failed direct fetch the error of the invocation is thrown again.
GenerateSettle == Settle("funcError")

\* The editor of a displayed citation saves its content, possibly empty:
\* handleSaveCitation of part_002, handleRichTextChange of src.
handleSaveCitation ==
    \E f \in Displayed, emptied \in BOOLEAN :
       /\ pEditable' = [pEditable EXCEPT ![f] =
                          IF emptied THEN [run |-> 0, by |-> "user"]
                          ELSE [run |-> pCitations[f].run, by |-> "user"]]
       /\ UNCHANGED <<pBuild, pSelected, pMaster, pCitations, pResults, pError,
                      pLoading, pRun, pRemote, pDownloads>>

\* A variant that saves the file before the failure is reported.
DownloadThenFail(format, message) ==
    \E f \in Displayed, fails \in BOOLEAN :
       /\ Len(pDownloads) < MaxDownloads
       /\ pDownloads' = Append(pDownloads,
                               [name |-> ExportFileName(pBuild, format, Chars(f)),
                                file |-> f, content |-> pCitations[f]])
       /\ pError' = IF fails THEN message ELSE pError
       /\ UNCHANGED <<pBuild, pSelected, pMaster, pCitations, pEditable, pResults,
                      pLoading, pRun, pRemote>>

\* The PDF or Word button of a displayed citation.  The document is built from
\* editableCitations[filename] || citation (richTextContent in src); a failure
\* at any step before the save is caught and reported, and nothing is saved.
Download(format, message) ==
    \E f \in Displayed, fails \in BOOLEAN :
       LET content == IF pEditable[f].run = 0 THEN pCitations[f] ELSE pEditable[f]
       IN  /\ Len(pDownloads) < MaxDownloads
           /\ IF fails
              THEN pError' = message /\ UNCHANGED pDownloads
              ELSE /\ pDownloads' =
                         Append(pDownloads,
                                [name |-> ExportFileName(pBuild, format, Chars(f)),
                                 file |-> f, content |-> content])
                   /\ UNCHANGED pError
           /\ UNCHANGED <<pBuild, pSelected, pMaster, pCitations, pEditable, pResults,
                          pLoading, pRun, pRemote>>

handleDownloadPDF == Download("pdf", "Failed to generate PDF")

handleDownloadDOCX == Download("docx", "Failed to generate DOCX")

\* ---------------------------------------------------------- specifications
vars == <<normVars, edgeVars, richVars, editVars, exportVars, pageVars>>

\* A component that takes no part in a specification rests in one state.
NormIdle ==
    /\ nBuild = "full" /\ nText = <<>> /\ nStyle = "OSCOLA"
    /\ nOut = <<>> /\ nOut2 = <<>> /\ nPc = "raw"

EdgeIdle ==
    /\ eReq = [method |-> "OPTIONS", test |-> FALSE, parses |-> TRUE, pdfUrls |-> <<>>,
               hasStyle |-> FALSE, citationStyle |-> "", masterpiece |-> "none"]
    /\ ePc = "done" /\ eStyle = "" /\ eMasterData = FALSE /\ eIdx = 1
    /\ eRefImages = <<>> /\ eResults = <<>> /\ eErrors = <<>>
    /\ eScreenshots = 0 /\ eLookups = 0 /\ eResponse = NoResponse

RichIdle ==
    /\ rText = <<>> /\ rStyle = "OSCOLA" /\ rOut = <<>> /\ rOut2 = <<>> /\ rPc = "twice"

EditIdle ==
    /\ xContent = <<>> /\ xStyle = "OSCOLA" /\ xStored = <<>>
    /\ xThrown = "none" /\ xPc = "done"

ExportIdle ==
    /\ dBuild = "part_002" /\ dFile = <<>> /\ dContent = <<>>
    /\ dFootnotes = [kind |-> "none", items |-> <<>>] /\ dStyle = "OSCOLA"
    /\ dPdf = NoDocument /\ dDocx = NoDocument

\* The normalizer on every bounded raw text.
InitNorm ==
    /\ NormStart
    /\ EdgeIdle /\ RichIdle /\ EditIdle /\ ExportIdle /\ PageStart /\ pBuild = "part_002"

NextNorm ==
    \/ Normalize /\ UNCHANGED <<edgeVars, richVars, editVars, exportVars, pageVars>>
    \/ NormalizeAgain /\ UNCHANGED <<edgeVars, richVars, editVars, exportVars, pageVars>>

SpecNorm == InitNorm /\ [][NextNorm]_vars

\* The edge function on every bounded request.
InitEdgeSpec ==
    /\ InitEdge
    /\ NormIdle /\ RichIdle /\ EditIdle /\ ExportIdle /\ PageStart /\ pBuild = "part_002"

NextEdge ==
    \/ EdgeReceive /\ UNCHANGED <<normVars, richVars, editVars, exportVars, pageVars>>
    \/ EdgeMasterpiece /\ UNCHANGED <<normVars, richVars, editVars, exportVars, pageVars>>
    \/ EdgeProcessPdf /\ UNCHANGED <<normVars, richVars, editVars, exportVars, pageVars>>
    \/ EdgeCompare /\ UNCHANGED <<normVars, richVars, editVars, exportVars, pageVars>>
    \/ EdgeRespond /\ UNCHANGED <<normVars, richVars, editVars, exportVars, pageVars>>

SpecEdge == InitEdgeSpec /\ [][NextEdge]_vars

\* The highlighter on every bounded citation text and every style.
InitRich ==
    /\ RichStart
    /\ NormIdle /\ EdgeIdle /\ EditIdle /\ ExportIdle /\ PageStart /\ pBuild = "part_002"

NextRich ==
    \/ Format /\ UNCHANGED <<normVars, edgeVars, editVars, exportVars, pageVars>>
    \/ FormatAgain /\ UNCHANGED <<normVars, edgeVars, editVars, exportVars, pageVars>>

SpecRich == InitRich /\ [][NextRich]_vars

\* The change handler of the editor build on every bounded content.
InitEdit ==
    /\ EditStart
    /\ NormIdle /\ EdgeIdle /\ RichIdle /\ ExportIdle /\ PageStart /\ pBuild = "part_002"

NextEdit ==
    \/ handleRichTextChange /\ UNCHANGED <<normVars, edgeVars, richVars, exportVars, pageVars>>

SpecEdit == InitEdit /\ [][NextEdit]_vars

\* The exporters of both builds on every bounded file name, citation and footnotes.
InitExport ==
    /\ ExportStart
    /\ NormIdle /\ EdgeIdle /\ RichIdle /\ EditIdle /\ PageStart /\ pBuild = "part_002"

NextExport ==
    \/ DownloadPDF /\ UNCHANGED <<normVars, edgeVars, richVars, editVars, pageVars>>
    \/ DownloadDOCX /\ UNCHANGED <<normVars, edgeVars, richVars, editVars, pageVars>>

SpecExport == InitExport /\ [][NextExport]_vars

\* The page of both builds without a masterpiece, under every order of its
\* handlers.
InitPage ==
    /\ PageStart
    /\ NormIdle /\ EdgeIdle /\ RichIdle /\ EditIdle /\ ExportIdle

NextPage ==
    \/ handleFileSelect /\ UNCHANGED <<normVars, edgeVars, richVars, editVars, exportVars>>
    \/ handleFileRemove /\ UNCHANGED <<normVars, edgeVars, richVars, editVars, exportVars>>
    \/ handleGenerateCitations /\ UNCHANGED <<normVars, edgeVars, richVars, editVars, exportVars>>
    \/ GenerateSettle /\ UNCHANGED <<normVars, edgeVars, richVars, editVars, exportVars>>
    \/ handleSaveCitation /\ UNCHANGED <<normVars, edgeVars, richVars, editVars, exportVars>>
    \/ handleDownloadPDF /\ UNCHANGED <<normVars, edgeVars, richVars, editVars, exportVars>>
    \/ handleDownloadDOCX /\ UNCHANGED <<normVars, edgeVars, richVars, editVars, exportVars>>

SpecPage == InitPage /\ [][NextPage]_vars

\* The page of part_002 with the masterpiece input, under every order of the
\* handlers that take part in a generation request.
InitMasterpiece ==
    /\ PageStart /\ pBuild = "part_002"
    /\ NormIdle /\ EdgeIdle /\ RichIdle /\ EditIdle /\ ExportIdle

NextMasterpiece ==
    \/ handleFileSelect /\ UNCHANGED <<normVars, edgeVars, richVars, editVars, exportVars>>
    \/ handleFileRemove /\ UNCHANGED <<normVars, edgeVars, richVars, editVars, exportVars>>
    \/ handleMasterFileSelect /\ UNCHANGED <<normVars, edgeVars, richVars, editVars, exportVars>>
    \/ handleMasterTextChange /\ UNCHANGED <<normVars, edgeVars, richVars, editVars, exportVars>>
    \/ toggleInputMode /\ UNCHANGED <<normVars, edgeVars, richVars, editVars, exportVars>>
    \/ handleMasterFileRemove /\ UNCHANGED <<normVars, edgeVars, richVars, editVars, exportVars>>
    \/ handleGenerateCitations /\ UNCHANGED <<normVars, edgeVars, richVars, editVars, exportVars>>
    \/ GenerateSettle /\ UNCHANGED <<normVars, edgeVars, richVars, editVars, exportVars>>

SpecMasterpiece == InitMasterpiece /\ [][NextMasterpiece]_vars

\* ------------------------------------------------- claims: the normalizer
\* The paragraphs of a normalized text: the pieces between paragraph breaks.
Paragraphs(s) == IF s = <<>> THEN <<>> ELSE Split(s, ParaBreak)

\* p begins with an ordinal marker "N. ": digits, a period, white space.
BeginsWithOrdinal(p) ==
    LET e == SkipDigits(p, 1)
    IN  e > 1 /\ e + 1 <= Len(p) /\ p[e] = "." /\ IsWs(p[e + 1])

\* p begins with "[N]" followed by exactly one space.
BracketThenOneSpace(p) ==
    LET e == SkipDigits(p, 2)
    IN  (p # <<>> /\ p[1] = "[" /\ e > 2 /\ e <= Len(p) /\ p[e] = "]")
            => /\ e + 1 <= Len(p) /\ p[e + 1] = " "
               /\ ~(e + 2 <= Len(p) /\ p[e + 2] = " ")

\* C1: the normalizer is idempotent: for every style and every raw text,
\* normalizing the normalized text gives the normalized text again.
C1_Idempotent ==
    (nBuild = "full" /\ nPc = "twice") => nOut2 = nOut

\* Number of carriage returns of s from position i on.
RECURSIVE CountCR(_, _)
CountCR(s, i) ==
    IF i > Len(s) THEN 0
    ELSE (IF s[i] = CR THEN 1 ELSE 0) + CountCR(s, i + 1)

\* Number of carriage returns of s that are not the first half of a CR LF.
RECURSIVE CountStrayCR(_, _)
CountStrayCR(s, i) ==
    IF i > Len(s) THEN 0
    ELSE (IF s[i] = CR /\ ~HasAt(s, i, <<CR, LF>>) THEN 1 ELSE 0) + CountStrayCR(s, i + 1)

\* C2: for every style and every text the normalizer turns each platform
\* line ending (CR LF) into a single line break and leaves no run of three or
\* more line breaks, whatever the style rule that follows; "a" + 4 line
\* breaks + "a" yields "a" + 2 line breaks + "a".
C2_LineBreaksCollapsed ==
    nPc = "once" =>
        /\ ~Includes(nOut, <<LF, LF, LF>>)
        /\ CountCR(nOut, 1) <= CountStrayCR(nText, 1)
        /\ (nText = <<"a", LF, LF, LF, LF, "a">> => nOut = <<"a", LF, LF, "a">>)

\* C2 for the page whose normalizer is the switch over the style.
C2_FullBuildCollapses ==
    nBuild = "full" => C2_LineBreaksCollapsed

\* C3: for OSCOLA the result is trimmed and none of its paragraphs begins
\* with an ordinal marker "N. ".
C3_OrdinalsStripped ==
    (nBuild = "full" /\ nStyle = "OSCOLA" /\ nPc = "once") =>
        /\ nOut = Trim(nOut)
        /\ \A k \in 1..Len(Paragraphs(nOut)) : ~BeginsWithOrdinal(Paragraphs(nOut)[k])

\* C4: for IEEE every leading "[N]" of a paragraph of the result is followed
\* by exactly one space, and the result has as many paragraphs as the cleaned
\* input has non-empty paragraphs.
C4_BracketsSpacedParagraphsKept ==
    (nBuild = "full" /\ nStyle = "IEEE" /\ nPc = "once") =>
        /\ \A k \in 1..Len(Paragraphs(nOut)) : BracketThenOneSpace(Paragraphs(nOut)[k])
        /\ Len(Paragraphs(nOut)) = Len(FilterNonBlank(Paragraphs(CleanedText(nText))))

\* C5: for every style, no paragraph of the result is empty or made of white
\* space only.
C5_NoBlankParagraph ==
    (nBuild = "full" /\ nPc = "once") =>
        \A k \in 1..Len(Paragraphs(nOut)) : Trim(Paragraphs(nOut)[k]) # <<>>

\* ------------------------------------------------ claims: the edge function
\* A request that asks for citations: a POST that is no test request.
CitationRequest(req) == req.method = "POST" /\ ~req.test

\* Nothing downstream of the validation has been attempted.
NothingAttempted == eScreenshots = 0 /\ eLookups = 0 /\ eResults = <<>>

RejectedWhenDone ==
    ePc = "done" =>
        /\ eResponse.status >= 400
        /\ eResponse.error # ""
        /\ eResponse.results = <<>>

\* C6 as stated: a citation request whose citationStyle is not one of the
\* fixed set is rejected with an error response, and no screenshot, style
\* table lookup or result is ever made for it.
C6_UnknownStyleRejected ==
    (CitationRequest(eReq) /\ eReq.hasStyle
        /\ eReq.citationStyle \notin validCitationStyles)
    => (NothingAttempted /\ RejectedWhenDone)

\* C6 as amended: a citation request whose citationStyle is a non-empty value
\* outside the fixed set is rejected with an error response of status 400,
\* and no screenshot, style table lookup or result is ever made for it; an
\* absent or empty citationStyle is replaced by the default "OSCOLA" and the
\* request goes on to be processed.
C6_NonEmptyUnknownStyleRejected ==
    /\ (CitationRequest(eReq) /\ eReq.hasStyle /\ eReq.citationStyle # ""
           /\ eReq.citationStyle \notin validCitationStyles)
       => /\ NothingAttempted
          /\ RejectedWhenDone
          /\ ePc \in {"recv", "done"}
          /\ (ePc = "done" => eResponse.status = 400)
    /\ (CitationRequest(eReq) /\ eReq.parses /\ eReq.pdfUrls # <<>>
           /\ (~eReq.hasStyle \/ eReq.citationStyle = "") /\ ePc # "recv")
       => /\ eStyle = "OSCOLA"
          /\ (ePc = "done" => eResponse.status = 200)

\* A request with the style "Vancouver" has been answered "Invalid citation
\* style".
C6_Witness ==
    /\ ePc = "done"
    /\ CitationRequest(eReq) /\ eReq.parses /\ eReq.pdfUrls # <<>>
    /\ eReq.citationStyle = "Vancouver"
    /\ eResponse.status = 400
    /\ eResponse.error = "Invalid citation style"

\* ------------------------------------------------ claims: the highlighter
\* Number of occurrences of t in s.
CountOf(s, t) == Cardinality({i \in 1..Len(s) : s[i] = t[1] /\ HasAt(s, i, t)})

\* C7: for every style and every text, running the highlighter on its own
\* output adds no annotation wrapper and returns that output unchanged.
C7_SecondRunUnchanged ==
    rPc = "twice" =>
        /\ CountOf(rOut2, AnnotationOpen) = CountOf(rOut, AnnotationOpen)
        /\ rOut2 = rOut

\* Number of emphasis, strong and annotation elements open at position i of
\* s: the opening tags before i less the closing tags before i.
EmphasisDepth(s, i) ==
    LET before == SubSeq(s, 1, i - 1)
    IN  CountOf(before, Chars("<em ")) + CountOf(before, Chars("<strong "))
            + CountOf(before, Chars("<span "))
        - CountOf(before, Chars("</em>")) - CountOf(before, Chars("</strong>"))
            - CountOf(before, Chars("</span>"))

\* C8: style APA on "(Smith, 2020) argues the point." wraps the marker, and
\* the rest of the sentence stays outside every emphasis or annotation
\* element.
C8_OnlyMarkerWrapped ==
    LET rest == Chars(" argues the point")
        R == {i \in 1..Len(rOut) : HasAt(rOut, i, rest)}
    IN  (rPc # "raw" /\ rStyle = "APA" /\ rText = Chars("(Smith, 2020) argues the point."))
            => /\ Includes(rOut, <<"(">> \o StrongOpen \o Chars("Smith, 2020")
                                     \o Chars("</strong>)"))
               /\ R # {}
               /\ \A i \in R : EmphasisDepth(rOut, i) = 0

\* The lines of a text, a line ending at CR LF, LF or CR.
RECURSIVE LinesFrom(_, _)
LinesFrom(s, i) ==
    LET j == RunEndNot(s, i, {LF, CR})
    IN  IF j > Len(s) THEN <<Slice(s, i, j)>>
        ELSE <<Slice(s, i, j)>>
                 \o LinesFrom(s, IF HasAt(s, j, <<CR, LF>>) THEN j + 2 ELSE j + 1)

\* The block each line is to become: a sub-heading for a non-blank line
\* shorter than the threshold and without a period, a paragraph otherwise.
LineKinds(text) ==
    LET lines == LinesFrom(text, 1)
    IN  [k \in 1..Len(lines) |->
            IF Trim(lines[k]) # <<>> /\ Len(lines[k]) < HeaderThreshold
                   /\ ~Includes(lines[k], <<".">>)
            THEN "h3" ELSE "p"]

\* The heading and paragraph blocks of the rendered text, in order, up to
\* the appended bibliography section.
BlockKinds(html) ==
    LET H4 == {i \in 1..Len(html) : HasAt(html, i, Chars("<h4 "))}
        stop == IF H4 = {} THEN Len(html) + 1 ELSE First(H4)
        B == {i \in 1..(stop - 1) :
                 html[i] = "<" /\ (HasAt(html, i, Chars("<h3 ")) \/ HasAt(html, i, Chars("<p ")))}
        Nth(k) == CHOOSE i \in B : Cardinality({j \in B : j < i}) = k - 1
    IN  [k \in 1..Cardinality(B) |-> IF html[Nth(k) + 1] = "h" THEN "h3" ELSE "p"]

\* C9: a text without markup is rendered one block per line, a sub-heading
\* if and only if the line is non-empty, shorter than 80 characters and has
\* no period, a paragraph otherwise; there are as many blocks as lines.
C9_OneBlockPerLine ==
    (rPc # "raw" /\ IsPlainText(rText)) => BlockKinds(rOut) = LineKinds(rText)

\* The element name of the tag s[p..c], without the slash of a closing tag.
TagName(s, p, c) ==
    LET a == IF s[p + 1] = "/" THEN p + 2 ELSE p + 1
    IN  Slice(s, a, RunEndNot(s, a, {" ", ">"}))

\* From position i on, every tag of s is closed before another one opens,
\* and the elements opened are closed in nested order; stack holds the names
\* of the elements open at i.
RECURSIVE TagsBalanced(_, _, _)
TagsBalanced(s, i, stack) ==
    LET p == RunEndNot(s, i, {"<"})
        c == RunEndNot(s, p + 1, {">", "<"})
    IN  IF p > Len(s) THEN stack = <<>>
        ELSE IF c > Len(s) \/ s[c] = "<" THEN FALSE
        ELSE IF s[p + 1] = "/"
        THEN /\ stack # <<>>
             /\ stack[Len(stack)] = TagName(s, p, c)
             /\ TagsBalanced(s, c + 1, SubSeq(stack, 1, Len(stack) - 1))
        ELSE TagsBalanced(s, c + 1, Append(stack, TagName(s, p, c)))

\* C10: for every style and every plain text the output is well-formed
\* markup: no rewrite lands inside a tag generated earlier, and every
\* element opened is closed, properly nested.
C10_WellFormedMarkup ==
    (rPc # "raw" /\ IsPlainText(rText)) => TagsBalanced(rOut, 1, <<>>)

\* --------------------------------------------- claims: the change handler
\* C11: the formatter never throws: for every content and every style the
\* rich-text change handler returns, and a failed match yields no entry
\* rather than an exception.
C11_FormatterNeverThrows == xPc = "done" => xThrown = "none"

\* ------------------------------------------------- claims: the exporters
\* The documents saved so far.
SavedDocuments == {d \in {dPdf, dDocx} : d # NoDocument}

\* The texts of the blocks of one kind, in the order they were emitted.
BlockTexts(d, kind) ==
    LET ix == SelectSeq([k \in 1..Len(d.blocks) |-> k],
                        LAMBDA k : d.blocks[k].kind = kind)
    IN  [k \in 1..Len(ix) |-> d.blocks[ix[k]].text]

\* The text holds a markup tag: "<", a letter or "/" and a letter, and a
\* closing ">" further on.
HasMarkupTag(text) ==
    \E i \in 1..Len(text) :
       /\ text[i] = "<"
       /\ \/ i < Len(text) /\ text[i + 1] \in LetterSet
          \/ i + 1 < Len(text) /\ text[i + 1] = "/" /\ text[i + 2] \in LetterSet
       /\ \E j \in i + 1..Len(text) : text[j] = ">"

\* C12: both exporters strip all presentational markup from the citation
\* content: the citation text placed in an exported document holds no markup
\* tag.
C12_ExportedTextHasNoMarkup ==
    \A d \in SavedDocuments :
       \A k \in 1..Len(d.blocks) :
          d.blocks[k].kind = "citation" => ~HasMarkupTag(d.blocks[k].text)

\* C12 for the build of part_002 alone.
C12_Part002Strips == dBuild = "part_002" => C12_ExportedTextHasNoMarkup

\* The paragraphs of a text that are not blank, trimmed.
NonBlankParagraphs(t) ==
    LET ps == FilterNonBlank(Split(t, ParaBreak))
    IN  [k \in 1..Len(ps) |-> Trim(ps[k])]

\* The footnotes of the result after the normalizer of the active style.
NormalizedFootnotes == processBibliographyText(RawFootnotesText(dFootnotes), dStyle)

\* C13: the footnote text written to the PDF and to the DOCX is the output of
\* the bibliography normalizer of the active style, never the raw footnotes:
\* the entries of a saved document hold the paragraphs of the normalized
\* footnotes.
C13_FootnotesAreNormalizerOutput ==
    \A d \in SavedDocuments :
       NonBlankParagraphs(Join(BlockTexts(d, "entry"), ParaBreak))
         = NonBlankParagraphs(NormalizedFootnotes)

\* C13 for the build of part_002 alone.
C13_Part002Normalizes == dBuild = "part_002" => C13_FootnotesAreNormalizerOutput

\* Position of the first block of a kind, 0 when there is none.
FirstOfKind(d, kind) ==
    LET ks == {k \in 1..Len(d.blocks) : d.blocks[k].kind = kind}
    IN  IF ks = {} THEN 0 ELSE First(ks)

\* C14: when footnotes are present, both exporters of part_002 emit the
\* citation content first, then one divider and one references/footnotes
\* heading, then the entries: one continuous block for the numbered-footnote
\* styles, and for APA, MLA and Chicago one block for each non-empty paragraph
\* of the footnotes, in input order.
C14_FootnoteSectionLayout ==
    \A d \in SavedDocuments :
       (dBuild = "part_002" /\ NonBlankParagraphs(NormalizedFootnotes) # <<>>) =>
          LET c == FirstOfKind(d, "citation")
              v == FirstOfKind(d, "divider")
              h == FirstOfKind(d, "heading")
              e == FirstOfKind(d, "entry")
          IN  /\ Len(BlockTexts(d, "citation")) = 1
              /\ Len(BlockTexts(d, "divider")) = 1
              /\ Len(BlockTexts(d, "heading")) = 1
              /\ 0 < c /\ c < v /\ c < h /\ v < e /\ h < e
              /\ \A k \in e..Len(d.blocks) : d.blocks[k].kind = "entry"
              /\ dStyle \in {"OSCOLA", "IEEE"} =>
                    BlockTexts(d, "entry") = <<NormalizedFootnotes>>
              /\ dStyle \in {"APA", "MLA", "Chicago"} =>
                    BlockTexts(d, "entry") = NonBlankParagraphs(NormalizedFootnotes)

\* C14, witness: both exporters of part_002 have saved a document for APA
\* footnotes of two paragraphs, each with two entry blocks.
C14_Witness ==
    /\ dBuild = "part_002" /\ dStyle = "APA"
    /\ Len(NonBlankParagraphs(NormalizedFootnotes)) = 2
    /\ dPdf # NoDocument /\ Len(BlockTexts(dPdf, "entry")) = 2
    /\ dDocx # NoDocument /\ Len(BlockTexts(dDocx, "entry")) = 2

\* C15: for IEEE and footnotes that are a sequence of k bracket-numbered
\* entries in numeric order, the DOCX exporter produces one block per entry:
\* k blocks, in order, each holding one whole entry.
C15_OneBlockPerNumberedEntry ==
    (/\ dDocx # NoDocument
     /\ dStyle = "IEEE"
     /\ dFootnotes.kind = "array"
     /\ dFootnotes.items \in {<<Chars("[1] First ref.")>>,
                              <<Chars("[1] First ref."), Chars("[2] Second ref.")>>})
    => BlockTexts(dDocx, "entry") = dFootnotes.items

\* The name with every character that is no letter and no digit replaced by
\* an underscore.
Sanitized(name) ==
    [i \in 1..Len(name) |-> IF name[i] \in LetterSet \cup DigitSet THEN name[i] ELSE "_"]

\* C16: the name of the exported file is "citation_", the input name with
\* every non-alphanumeric character replaced by an underscore, and the
\* extension of the format; the PDF and the DOCX of one input name share the
\* base name.
C16_FileNameSanitized ==
    /\ dPdf # NoDocument =>
          dPdf.name = Chars("citation_") \o Sanitized(dFile) \o Chars(".pdf")
    /\ dDocx # NoDocument =>
          dDocx.name = Chars("citation_") \o Sanitized(dFile) \o Chars(".docx")

\* C16, the weaker half: the two exporters of a build derive the same base
\* name.
C16_SameBaseName ==
    (dPdf # NoDocument /\ dDocx # NoDocument) =>
       SubSeq(dPdf.name, 1, Len(dPdf.name) - 4) = SubSeq(dDocx.name, 1, Len(dDocx.name) - 5)

\* ------------------------------------------------------ claims: the page
\* The files that have a citation.
Cited == {f \in PageFiles : pCitations[f] # NoCitation}

\* C17: an export that fails is caught in the handler: it sets one error
\* string, hands no file to the browser, and leaves citations, results and
\* edited citations as they were; an export that succeeds saves one file and
\* sets no error.
C17_ExportFailureContained ==
    [][(handleDownloadPDF \/ handleDownloadDOCX) =>
          /\ UNCHANGED <<pCitations, pResults, pEditable>>
          /\ \/ /\ pError' \in {"Failed to generate PDF", "Failed to generate DOCX"}
                /\ pDownloads' = pDownloads
             \/ /\ pError' = pError
                /\ Len(pDownloads') = Len(pDownloads) + 1]_vars

\* C17, witness: an export has failed while citations are held and nothing
\* was saved.
C17_Witness ==
    /\ pError = "Failed to generate DOCX"
    /\ pDownloads = <<>>
    /\ Cited # {}

\* C18: after one document of a batch has failed, by an error the function
\* reports for it or by a failed export, the documents that have citations
\* stay displayed with their export buttons.
C18_OthersStayAvailable ==
    pError \in {"Error processing", "Failed to generate PDF", "Failed to generate DOCX"}
       => Displayed = Cited

\* C19: a click on generate with no selected reference file sets the error
\* message and changes nothing else: isLoading, citations and results stay,
\* no file is uploaded, the function is not invoked.
C19_EmptySelectionRejected ==
    [][(handleGenerateCitations /\ pSelected = {}) =>
          /\ pError' = "Please select at least one reference PDF file"
          /\ UNCHANGED <<pLoading, pCitations, pResults, pEditable, pRemote, pRun>>]_vars

\* C19, witness: the click was rejected while the page holds citations of an
\* earlier request.
C19_Witness ==
    /\ pSelected = {}
    /\ pError = "Please select at least one reference PDF file"
    /\ pRun.count > 0
    /\ ~pLoading

\* C20: once a generation request has finished, with success or failure, the
\* citations and results of the page hold no entry of an earlier request.
C20_EarlierResultsDiscarded ==
    (~pLoading /\ pRun.count > 0) =>
       /\ \A f \in Cited : pCitations[f].run = pRun.count
       /\ \A r \in pResults : r.run = pRun.count

\* ------------------------------------- claims: the edge function, the loop
\* The file names of a list of results or errors.
NamesOf(list) == [i \in 1..Len(list) |-> list[i].fileName]

\* The elements of the request's pdfUrls that are in a set, in request order.
RequestedIn(names) == SelectSeq(eReq.pdfUrls, LAMBDA f : f \in names)

\* C21: a reference PDF that fails gets an error entry and the loop goes on:
\* when no masterpiece is compared, the response holds every requested PDF in
\* exactly one of results and errors, both in request order, and the errors
\* field is present only when there is an error.
C21_EveryPdfAccountedFor ==
    (eResponse.status = 200 /\ ~eReq.test /\ ~eMasterData) =>
       LET rs == NamesOf(eResponse.results)
           es == NamesOf(eResponse.errors)
           R  == {rs[i] : i \in 1..Len(rs)}
           E  == {es[i] : i \in 1..Len(es)}
       IN  /\ R \cap E = {}
           /\ rs = RequestedIn(R)
           /\ es = RequestedIn(E)
           /\ Len(rs) + Len(es) = Len(eReq.pdfUrls)
           /\ eResponse.hasErrors <=> (eResponse.errors # <<>>)

\* C21, witness: a response without a compared masterpiece in which the first
\* PDF failed and the second got its citation.
C21_Witness ==
    /\ eResponse.status = 200 /\ ~eReq.test /\ ~eMasterData
    /\ Len(eReq.pdfUrls) = 2
    /\ NamesOf(eResponse.errors) = <<eReq.pdfUrls[1]>>
    /\ NamesOf(eResponse.results) = <<eReq.pdfUrls[2]>>
    /\ eResponse.hasErrors

\* ----------------------------- claims: the edge function, the masterpiece
\* C30: when the request supplies a masterpiece, as a file or as pasted text,
\* and a reference PDF was processed, the response holds exactly one result
\* or one error entry for the masterpiece and no citation of a reference.
C30_MasterpieceNeverDropped ==
    (/\ eResponse.status = 200 /\ ~eReq.test
     /\ eReq.masterpiece # "none"
     /\ eRefImages # <<>>)
    => /\ Cardinality({i \in 1..Len(eResponse.results) :
                          eResponse.results[i].kind = "masterpiece"})
          + Cardinality({i \in 1..Len(eResponse.errors) :
                          eResponse.errors[i].fileName = "masterpiece"}) = 1
       /\ \A i \in 1..Len(eResponse.results) : eResponse.results[i].kind # "citation"

\* C30 for a masterpiece file whose screenshot was taken.
C30_ComparedMasterpieceAnswered == eMasterData => C30_MasterpieceNeverDropped

\* ------------------------------------------ claims: the generation request
\* C22: a generation request always ends with isLoading false.  The direct
\* fetch is attempted when, and only when, the invocation has failed; when the
\* fetch fails as well, the error is "Failed to process files: " followed by
\* the error of the invocation, and citations and results stay as they were.
C22_FallbackThenOriginalError ==
    [][GenerateSettle =>
          /\ ~pLoading'
          /\ (pRemote'.invoke = "failed") <=> (pRemote'.fetch # "none")
          /\ (pRemote'.invoke = "failed" /\ pRemote'.fetch = "failed") =>
                /\ pRemote'.invokeError \in InvokeErrors
                /\ pError' = "Failed to process files: " \o pRemote'.invokeError
                /\ UNCHANGED <<pCitations, pResults>>]_vars

\* C22, witness: the invocation and the direct fetch have both failed and the
\* page shows the error of the invocation.
C22_Witness ==
    /\ ~pLoading
    /\ pRemote.invoke = "failed"
    /\ pRemote.fetch = "failed"
    /\ pError = "Failed to process files: Failed to send a request to the Edge Function"

\* C26: when a generation request has ended, a removal from storage has been
\* issued for every file the request uploaded, the reference files and the
\* masterpiece file.
C26_UploadsRemoved ==
    (~pLoading /\ pRun.count > 0) =>
       /\ pRemote.uploaded \subseteq pRemote.removed
       /\ ~pRemote.master

\* C26, for the reference files of a request that got an answer or invoked
\* nothing: the removal is issued for each of them.
C26_ReferencesRemovedUnlessFailed ==
    (~pLoading /\ ~(pRemote.invoke = "failed" /\ pRemote.fetch = "failed")) =>
       pRemote.removed = pRemote.uploaded

\* ---------------------------------------- claims: the masterpiece input
\* C27: in every reachable state the two masterpiece inputs exclude each other:
\* in text mode masterFile is empty, in file mode masterText is blank; and a
\* declined confirmation leaves inputMode, masterFile, masterText, citations
\* and error as they were.
C27_ModesExclusive ==
    /\ [](/\ pMaster.mode = "text" => pMaster.file = ""
          /\ pMaster.mode = "file" => Blank(pMaster.text))
    /\ [][((handleMasterFileSelect \/ handleMasterTextChange \/ toggleInputMode)
             /\ pMaster'.confirm = "declined") =>
            /\ pMaster'.mode = pMaster.mode
            /\ pMaster'.file = pMaster.file
            /\ pMaster'.text = pMaster.text
            /\ UNCHANGED <<pCitations, pError>>]_vars

\* C27, witness: a confirmation was declined in text mode while the page holds
\* a pasted text and citations.
C27_Witness ==
    /\ pMaster.confirm = "declined"
    /\ pMaster.mode = "text"
    /\ pMaster.text = "t"
    /\ Cited # {}
    /\ pError = ""

\* ------------------------------------- claims: the selection and the export
\* C28: when a generation request has ended, every file that has a citation
\* is still selected: a file removed while the request was in flight gets none.
C28_OnlySelectedCited ==
    ~pLoading => Cited \subseteq pSelected

\* C29: a document that is exported for a file carries the citation of the
\* most recent generation for that file, or an edit of that citation: never
\* an edit made to the citation of an earlier generation.
C29_ExportsLatestGeneration ==
    [][((handleDownloadPDF \/ handleDownloadDOCX)
          /\ Len(pDownloads') > Len(pDownloads)) =>
            LET saved == pDownloads'[Len(pDownloads')]
            IN  saved.content.run = pCitations[saved.file].run]_vars

\* ------------------------------- claims: the highlighter, the bibliography
\* The bracketed numbers "[N]" of a text: the digits of each.
MarkerNumbers(s) ==
    {Slice(s, i + 1, BracketRefEnd(s, i)) : i \in {j \in 1..Len(s) : BracketRefEnd(s, j) > 0}}

\* The entries a text introduces at the start of a line by "N." or "[N]": the
\* number and the text that follows it up to the end of the line or the next
\* number.
IntroducedEntries(s) ==
    LET starts == {i \in 1..Len(s) :
                      AtLineStart(s, i) /\ (OrdinalEnd(s, i) > 0 \/ BracketRefEnd(s, i) > 0)}
        head(i) == IF OrdinalEnd(s, i) > 0 THEN OrdinalEnd(s, i) ELSE BracketRefEnd(s, i)
        stop(i) == First({x \in (head(i) + 1)..(Len(s) + 1) :
                             x = Len(s) + 1 \/ s[x] \in {LF, CR}
                                \/ BracketRefEnd(s, x) > 0 \/ OrdinalEnd(s, x) > 0})
        entry(i) == [number |-> SelectSeq(Slice(s, i, head(i)), LAMBDA c : c \in DigitSet),
                     text |-> Trim(Slice(s, head(i) + 1, stop(i)))]
    IN  {entry(i) : i \in {j \in starts : entry(j).text # <<>>}}

\* C23: for OSCOLA and IEEE, when a plain text holds a marker "[N]" and
\* introduces an entry N by "N." or "[N]", the output holds the hover
\* annotation that carries the text of that entry.
C23_MarkerCarriesEntry ==
    (rPc # "raw" /\ rStyle \in {"OSCOLA", "IEEE"} /\ IsPlainText(rText)) =>
       \A entry \in IntroducedEntries(rText) :
          entry.number \in MarkerNumbers(rText) =>
             Includes(rOut, Chars("<span class=\"citation-ref\" title=\"") \o entry.text
                                \o Chars("\">"))

\* The key of an entry is the key some in-text marker of the text looks up:
\* the number of a "[N]", the author and year of an "(Author, Year)", the
\* author of an "(Author page)".
KeyHasMarker(s, style, key) ==
    CASE style \in {"OSCOLA", "IEEE"} -> key \in MarkerNumbers(s)
      [] style = "APA" ->
             \E i \in 1..Len(s) :
                LET m == apaInTextMatch(s, i)
                IN  /\ m # <<>>
                    /\ key = AuthorYearKey(Slice(s, i + 1, m[2]), Slice(s, m[3], m[3] + 4))
      [] style = "MLA" ->
             \E i \in 1..Len(s) :
                LET m == mlaInTextMatch(s, i)
                IN  m # <<>> /\ HasAt(key, 1, Slice(s, i + 1, m[2]) \o <<"-">>)
      [] OTHER -> FALSE

\* C24: every bibliography entry that is extracted from a plain text, and
\* with it every paragraph of the appended section, has a key that an in-text
\* marker of that text refers to.
C24_EntriesHaveMarkers ==
    (rPc # "raw" /\ IsPlainText(rText)) =>
       LET ents == bibliographyEntries(rText, rStyle)
       IN  \A j \in 1..Len(ents) : KeyHasMarker(rText, rStyle, ents[j].key)

\* ------------------------------------ claims: the highlighter, markup input
\* out is text with highlight spans inserted and nothing else changed: some
\* opening tags of the annotation and as many closing tags of out are the
\* insertions, and every other character of out is the character of text at
\* the position less the insertions before it.
OnlyHighlightsAdded(text, out) ==
    LET L == Len(AnnotationOpen)
        close == Chars("</span>")
        added == Len(out) - Len(text)
        P == {i \in 1..Len(out) : out[i] = "<"}
    IN  /\ added >= 0
        /\ added % (L + Len(close)) = 0
        /\ \E opens \in SUBSET {i \in P : HasAt(out, i, AnnotationOpen)} :
              /\ Cardinality(opens) * (L + Len(close)) = added
              /\ \E closes \in SUBSET {i \in P : HasAt(out, i, close)} :
                    /\ Cardinality(closes) = Cardinality(opens)
                    /\ \A p \in 1..Len(out) :
                          LET before == L * Cardinality({a \in opens : a + L <= p})
                                            + Len(close) * Cardinality({c \in closes : c + Len(close) <= p})
                              inside == \/ \E a \in opens : a <= p /\ p < a + L
                                        \/ \E c \in closes : c <= p /\ p < c + Len(close)
                          IN  inside \/ (p - before \in 1..Len(text) /\ out[p] = text[p - before])

\* The output went through the plain-text path: it holds the paragraph or
\* header blocks of the structuring step.
Structured(out) ==
    Includes(out, Chars("<p style=\"margin-bottom: 1em")) \/ Includes(out, Chars("<h3 style=\""))

\* C25: a citation that already holds markup is returned with highlight spans
\* inserted and nothing else changed, the first time and when the highlighter
\* runs on its own output; and only a citation without any markup tag goes
\* through the plain-text path.
C25_MarkupOnlyHighlighted ==
    /\ (rPc # "raw" /\ HasMarkupTag(rText)) => OnlyHighlightsAdded(rText, rOut)
    /\ (rPc = "twice" /\ HasMarkupTag(rOut)) => OnlyHighlightsAdded(rOut, rOut2)
    /\ (rPc # "raw" /\ Structured(rOut)) => ~HasMarkupTag(rText)

\* C25, witness: a citation with a markup tag and a citing phrase has been
\* formatted and holds one highlight.
C25_Witness ==
    /\ rPc # "raw"
    /\ HasMarkupTag(rText)
    /\ CountOf(rText, AnnotationOpen) = 0
    /\ CountOf(rOut, AnnotationOpen) = 1

====
